---- MODULE Spec2Model ----
(***************************************************************************)
(* A model of MapComponent (src/src/components/Map.tsx): the selection     *)
(* lists (favorites / compare) and their local-storage persistence, the    *)
(* polygon drawing state machine, the derived slider bounds and the filter *)
(* predicate that feeds the 'properties' map source.                       *)
(*                                                                         *)
(* One action is one event handler together with the render and the        *)
(* effects (useEffect) that React runs for the state the handler set: the  *)
(* component is single-threaded and React flushes the effects of an event  *)
(* before the next event is handled.                                       *)
(*                                                                         *)
(* Units: time is counted in hours (DAY_MS is 24), the local time zone is  *)
(* UTC; coordinates are integers (the spec's 0.4 is 4, 1 is 10).           *)
(***************************************************************************)
EXTENDS Integers, Sequences, FiniteSets, TLC

VARIABLES
    \* selection lists and local storage
    favoriteIds, compareIds, storedFavorites, storedCompare, mountPhase, restoreQueue,
    \* what local storage held when the session was constructed, until it is restored
    bootStore,
    \* polygon search state, its ref mirrors and the map engine's pan/cursor
    isDrawingPolygon, polygonPoints, isPolygonClosed, isDraggingVertex,
    isDrawingPolygonRef, isDraggingVertexRef, draggedVertexIndexRef, polygonPointsRef,
    dragPan, cursor,
    \* listings, map engine (fitCount: the fitBounds calls made so far)
    properties, mapLoaded, sourceData, zoomed, fitCount,
    \* filter state
    visibleCategories, sizeRange, maxSizeAvailable,
    priceRange, minPriceAvailable, maxPriceAvailable,
    yearRange, minYearAvailable, maxYearAvailable,
    dateRange, minDateAvailable, maxDateAvailable,
    \* history: the last event handled, the polygon phase it started from,
    \* the number of filter edits made so far
    ev, evFrom, nEdits,
    \* the pointer: the layer it is over, the popups and cluster zooms its clicks
    \* opened, the clicks made on listing layers
    hover, popups, eases, nClicks,
    \* a point-in-polygon evaluation: its arguments and its result
    geomPoint, geomPolygon, geomInside,
    \* an evaluation of the filter predicate: its arguments and its result
    facetListing, facetFilter, facetResult

selVars == <<favoriteIds, compareIds, storedFavorites, storedCompare, mountPhase, restoreQueue,
             bootStore>>
polyVars == <<isDrawingPolygon, polygonPoints, isPolygonClosed, isDraggingVertex,
              isDrawingPolygonRef, isDraggingVertexRef, draggedVertexIndexRef,
              polygonPointsRef, dragPan, cursor>>
dataVars == <<properties, mapLoaded, sourceData, zoomed, fitCount>>
filterVars == <<visibleCategories, sizeRange, maxSizeAvailable,
                priceRange, minPriceAvailable, maxPriceAvailable,
                yearRange, minYearAvailable, maxYearAvailable,
                dateRange, minDateAvailable, maxDateAvailable>>
histVars == <<ev, evFrom, nEdits>>
pointerVars == <<hover, popups, eases, nClicks>>
facetVars == <<facetListing, facetFilter, facetResult>>
geomVars == <<geomPoint, geomPolygon, geomInside, facetVars>>
vars == <<selVars, polyVars, dataVars, filterVars, histVars, pointerVars, geomVars>>

(***************************************************************************)
(* Program constants                                                       *)
(***************************************************************************)
DAY_MS == 24
PRICE_FILTER_CAP == 1000000
MAX_COMPARE_ITEMS == 4

(***************************************************************************)
(* Bounds of the model                                                     *)
(***************************************************************************)
\* longest array found in local storage at startup
MaxStored == 6
\* most points a drawn polygon gets
MaxPoints == 3
\* most slider / category edits of one session
MaxEdits == 2
\* most vertices of a polygon handed to isPointInPolygon
MaxVertices == 4
\* most clicks made on the listing layers
MaxClicks == 2

Min(a, b) == IF a <= b THEN a ELSE b
Max(a, b) == IF a >= b THEN a ELSE b
SeqSet(s) == {s[i] : i \in 1..Len(s)}

(***************************************************************************)
(* Selection lists                                                         *)
(***************************************************************************)
Ids == {"a", "b", "c", "d", "e"}
\* the ids the favorites controls are used on
FavIds == {"a", "b", "c"}

Includes(list, id) == \E i \in 1..Len(list) : list[i] = id
Without(list, id) == SelectSeq(list, LAMBDA x : x # id)
\* a buggy removal that drops the first occurrence only
WithoutFirst(list, id) ==
    LET i == CHOOSE k \in 1..Len(list) : list[k] = id /\ \A m \in 1..(k-1) : list[m] # id
    IN SubSeq(list, 1, i - 1) \o SubSeq(list, i + 1, Len(list))

ToggleFavoriteFirstOnly(prev, propertyId) ==
    IF Includes(prev, propertyId) THEN WithoutFirst(prev, propertyId)
    ELSE Append(prev, propertyId)

toggleFavoriteById(prev, propertyId) ==
    IF Includes(prev, propertyId) THEN Without(prev, propertyId)
    ELSE Append(prev, propertyId)

ToggleCompareNoCap(prev, propertyId) ==
    IF Includes(prev, propertyId) THEN Without(prev, propertyId)
    ELSE Append(prev, propertyId)

toggleCompareById(prev, propertyId) ==
    IF Includes(prev, propertyId) THEN Without(prev, propertyId)
    ELSE IF Len(prev) >= MAX_COMPARE_ITEMS THEN prev
    ELSE Append(prev, propertyId)

removeFromFavorites(prev, propertyId) == Without(prev, propertyId)
removeFromCompare(prev, propertyId) == Without(prev, propertyId)

(***************************************************************************)
(* Local storage.  A stored value is absent, unparseable text, JSON that   *)
(* is no array, or a JSON array; an array item is <<"s", text>> for the    *)
(* string text and <<"n", text>> for the number written text.              *)
(***************************************************************************)
Absent == [kind |-> "absent", items |-> <<>>]
Corrupt == [kind |-> "corrupt", items |-> <<>>]
NotArray == [kind |-> "notarray", items |-> <<>>]
JsonArray(items) == [kind |-> "array", items |-> items]

\* String(item)
ToStr(item) == item[2]
\* JSON.stringify of a list of strings
JSONStringify(list) == JsonArray([i \in 1..Len(list) |-> <<"s", list[i]>>])
Slice(list, n) == SubSeq(list, 1, Min(n, Len(list)))

IdCycle == <<"a", "b", "c", "d", "e">>
\* item j of the sample stored arrays: the ids in turn, every third one a number
SampleItem(j) ==
    LET id == IdCycle[((j - 1) % Len(IdCycle)) + 1]
    IN IF j % 3 = 0 THEN <<"n", id>> ELSE <<"s", id>>
StoredArrays ==
    {JsonArray([i \in 1..n |-> SampleItem(k + i)]) : n \in 0..MaxStored, k \in {0, 2}}
        \cup {JsonArray(<<<<"s", "a">>, <<"s", "a">>>>)}
StoredValues == {Absent, Corrupt, NotArray} \cup StoredArrays

NoUpdate == [set |-> FALSE, value |-> <<>>]
Update(list) == [set |-> TRUE, value |-> list]

\* the restore effect: the state updates it queues for a pair of stored values;
\* a JSON.parse that throws leaves the try block
RestoreFavorites(rawFavorites) ==
    IF rawFavorites.kind = "array"
    THEN Update([i \in 1..Len(rawFavorites.items) |-> ToStr(rawFavorites.items[i])])
    ELSE NoUpdate
RestoreCompare(rawFavorites, rawCompare) ==
    IF rawFavorites.kind # "corrupt" /\ rawCompare.kind = "array"
    THEN Update(Slice([i \in 1..Len(rawCompare.items) |-> ToStr(rawCompare.items[i])],
                      MAX_COMPARE_ITEMS))
    ELSE NoUpdate

(***************************************************************************)
(* Listings.  year_built 0 stands for null; a negative recorded_at or      *)
(* created_at stands for a missing or unparseable timestamp.               *)
(***************************************************************************)
Wkt(x, y) == [kind |-> "wkt", x |-> x, y |-> y]
GeoJson(x, y) == [kind |-> "geojson", x |-> x, y |-> y]
NoLocation == [kind |-> "none", x |-> 0, y |-> 0]

ListingA == [id |-> "a", price |-> 200000, size_m2 |-> 50, year_built |-> 1990,
             location |-> Wkt(4, 6), price_history |-> <<7200>>, created_at |-> 7100]
ListingB == [id |-> "b", price |-> 800000, size_m2 |-> 0, year_built |-> 0,
             location |-> GeoJson(15, 15), price_history |-> <<>>, created_at |-> 9500]
ListingC == [id |-> "c", price |-> 1250000, size_m2 |-> 620, year_built |-> 2005,
             location |-> Wkt(6, 4), price_history |-> <<7000, 9010>>, created_at |-> 6000]
ListingD == [id |-> "d", price |-> 0, size_m2 |-> 80, year_built |-> 0,
             location |-> GeoJson(4, 6), price_history |-> <<0 - 1>>, created_at |-> 0 - 1]

\* a listing whose location resolves to no coordinate pair
ListingE == [id |-> "e", price |-> 300000, size_m2 |-> 100, year_built |-> 2000,
             location |-> NoLocation, price_history |-> <<8000>>, created_at |-> 8000]

\* the arrays a fetch delivers
ListingArrays == {<<>>, <<ListingA, ListingB>>, <<ListingB>>, <<ListingD>>,
                  <<ListingA, ListingB, ListingC, ListingD>>}

NoCoordinates == <<>>
parseLocationCoordinates(location) ==
    IF location.kind \in {"wkt", "geojson"} THEN <<location.x, location.y>>
    ELSE NoCoordinates

toDayStart(timestamp) == timestamp - (timestamp % DAY_MS)

getPropertyHistoryDates(property) ==
    LET finite == SelectSeq(property.price_history, LAMBDA t : t >= 0)
    IN [i \in 1..Len(finite) |-> toDayStart(finite[i])]

(***************************************************************************)
(* Geometry                                                                *)
(***************************************************************************)
\* edge (polygon[j], polygon[i]) crosses the ray from the point: the division
\* by yj - yi (never 0 when the first conjunct holds) is cleared exactly
EdgeIntersects(point, pi, pj) ==
    LET x == point[1]  y == point[2]
        xi == pi[1]  yi == pi[2]
        xj == pj[1]  yj == pj[2]
    IN /\ (yi > y) # (yj > y)
       /\ IF yj - yi > 0
          THEN (x - xi) * (yj - yi) < (xj - xi) * (y - yi)
          ELSE (x - xi) * (yj - yi) > (xj - xi) * (y - yi)

\* the loop without its first round (i = 0, j = length - 1): the closing edge is missed
PointInOpenChain(point, polygon) ==
    IF Len(polygon) < 3 THEN FALSE
    ELSE LET crossings == {i \in 2..Len(polygon) :
                              EdgeIntersects(point, polygon[i], polygon[i - 1])}
         IN Cardinality(crossings) % 2 = 1

isPointInPolygon(point, polygon) ==
    IF Len(polygon) < 3 THEN FALSE
    ELSE LET n == Len(polygon)
             prev(i) == IF i = 1 THEN n ELSE i - 1
             crossings == {i \in 1..n : EdgeIntersects(point, polygon[i], polygon[prev(i)])}
         IN Cardinality(crossings) % 2 = 1

NoVertex == 0
Dist2(p, q) == (p[1] - q[1]) * (p[1] - q[1]) + (p[2] - q[2]) * (p[2] - q[2])
\* index (from 1) of the first vertex at the least distance, NoVertex for no points
findClosestVertexIndex(points, target) ==
    IF Len(points) = 0 THEN NoVertex
    ELSE CHOOSE i \in 1..Len(points) :
            /\ \A k \in 1..Len(points) : Dist2(points[i], target) <= Dist2(points[k], target)
            /\ \A k \in 1..(i - 1) : Dist2(points[k], target) > Dist2(points[i], target)

(***************************************************************************)
(* Derived bounds (the effects on [properties])                            *)
(***************************************************************************)
SeqMax(s) == CHOOSE m \in SeqSet(s) : \A v \in SeqSet(s) : v <= m
SeqMin(s) == CHOOSE m \in SeqSet(s) : \A v \in SeqSet(s) : m <= v
FloorTo(x, m) == (x \div m) * m
CeilTo(x, m) == (0 - ((0 - x) \div m)) * m

Unchanged == [set |-> FALSE, min |-> 0, max |-> 0]
Bounds(lo, hi) == [set |-> TRUE, min |-> lo, max |-> hi]

\* 3. max size: the new maximum when it exceeds the stored one
SizeBoundsShrinking(props, maxSize) ==
    IF Len(props) > 0
    THEN Bounds(0, CeilTo(SeqMax([i \in 1..Len(props) |-> props[i].size_m2]), 10))
    ELSE Unchanged
SizeBounds(props, maxSize) ==
    IF Len(props) > 0
    THEN LET max == CeilTo(SeqMax([i \in 1..Len(props) |-> props[i].size_m2]), 10)
         IN IF max > maxSize THEN Bounds(0, max) ELSE Unchanged
    ELSE Unchanged

\* 3c. price range
PriceBoundsUnclampedMin(props) ==
    LET prices == SelectSeq([i \in 1..Len(props) |-> props[i].price], LAMBDA p : p > 0)
    IN IF Len(props) > 0 /\ Len(prices) > 0
       THEN LET minPRaw == FloorTo(SeqMin(prices), 10000)
                maxPRaw == CeilTo(SeqMax(prices), 10000)
                maxP == Min(maxPRaw, PRICE_FILTER_CAP)
            IN Bounds(minPRaw, maxP)
       ELSE Unchanged
PriceBoundsCountingZero(props) ==
    LET prices == [i \in 1..Len(props) |-> props[i].price]
    IN IF Len(props) > 0 /\ Len(prices) > 0
       THEN LET minPRaw == FloorTo(SeqMin(prices), 10000)
                maxPRaw == CeilTo(SeqMax(prices), 10000)
                maxP == Min(maxPRaw, PRICE_FILTER_CAP)
                minP == Min(minPRaw, maxP)
            IN Bounds(minP, maxP)
       ELSE Unchanged
PriceBounds(props) ==
    LET prices == SelectSeq([i \in 1..Len(props) |-> props[i].price], LAMBDA p : p > 0)
    IN IF Len(props) > 0 /\ Len(prices) > 0
       THEN LET minPRaw == FloorTo(SeqMin(prices), 10000)
                maxPRaw == CeilTo(SeqMax(prices), 10000)
                maxP == Min(maxPRaw, PRICE_FILTER_CAP)
                minP == Min(minPRaw, maxP)
            IN Bounds(minP, maxP)
       ELSE Unchanged

\* 3b. year built range
YearBoundsWithNulls(props) ==
    LET years == [i \in 1..Len(props) |-> props[i].year_built]
    IN IF Len(props) > 0 /\ Len(years) > 0
       THEN Bounds(SeqMin(years), SeqMax(years))
       ELSE Unchanged
YearBounds(props) ==
    LET years == SelectSeq([i \in 1..Len(props) |-> props[i].year_built], LAMBDA y : y > 0)
    IN IF Len(props) > 0 /\ Len(years) > 0
       THEN Bounds(SeqMin(years), SeqMax(years))
       ELSE Unchanged

\* 3d. timeline bounds
PropertyDates(property) ==
    LET historyDates == getPropertyHistoryDates(property)
    IN IF Len(historyDates) > 0 THEN SeqSet(historyDates)
       ELSE IF property.created_at >= 0 THEN {toDayStart(property.created_at)}
       ELSE {}
TimelineBounds(props) ==
    LET dates == UNION {PropertyDates(props[i]) : i \in 1..Len(props)}
    IN IF Len(props) = 0 \/ dates = {} THEN Unchanged
       ELSE Bounds(CHOOSE m \in dates : \A d \in dates : m <= d,
                   CHOOSE m \in dates : \A d \in dates : d <= m)

(***************************************************************************)
(* Filter predicate (the map data effect)                                  *)
(***************************************************************************)
Categories == {"cheap", "medium", "expensive", "unknown"}
AllVisible == [c \in Categories |-> TRUE]

\* a price facet without the bypass for unknown prices
PassesPriceNoBypass(property, pRange) ==
    ~(property.price < pRange[1] \/ property.price > pRange[2])

\* 0. total price
PassesPrice(property, pRange) ==
    IF property.price > 0
    THEN ~(property.price < pRange[1] \/ property.price > pRange[2])
    ELSE TRUE

\* 1. size
PassesSize(property, sRange) ==
    IF property.size_m2 > 0
    THEN ~(property.size_m2 < sRange[1] \/ property.size_m2 > sRange[2])
    ELSE TRUE

\* 2. category: pricePerM2 is price / size for a positive size and 0 otherwise
PricePerM2Below(property, limit) ==
    IF property.size_m2 > 0 THEN property.price < limit * property.size_m2
    ELSE 0 < limit
BucketBoundaryInclusive(property) ==
    IF property.size_m2 = 0 THEN "unknown"
    ELSE IF PricePerM2Below(property, 3001) THEN "cheap"
    ELSE IF PricePerM2Below(property, 5001) THEN "medium"
    ELSE "expensive"
Bucket(property) ==
    IF property.size_m2 = 0 THEN "unknown"
    ELSE IF PricePerM2Below(property, 3000) THEN "cheap"
    ELSE IF PricePerM2Below(property, 5000) THEN "medium"
    ELSE "expensive"
PassesCategory(property, cats) == cats[Bucket(property)]

\* 3. year built
PassesYear(property, yRange) ==
    IF property.year_built > 0
    THEN ~(property.year_built < yRange[1] \/ property.year_built > yRange[2])
    ELSE TRUE

\* a timeline facet without the fallback date
PassesTimelineNoFallback(property, dRange, maxDate) ==
    LET rangeStart == toDayStart(dRange[1])
        rangeEnd == toDayStart(maxDate)
        historyDates == getPropertyHistoryDates(property)
    IN \E i \in 1..Len(historyDates) :
          historyDates[i] >= rangeStart /\ historyDates[i] <= rangeEnd

\* 4. timeline: some date of the listing in [rangeStart, rangeEnd]
PassesTimeline(property, dRange, maxDate) ==
    LET rangeStart == toDayStart(dRange[1])
        rangeEnd == toDayStart(maxDate)
        historyDates == getPropertyHistoryDates(property)
        fallbackDate == toDayStart(maxDate)
        datesToCheck == IF Len(historyDates) > 0 THEN historyDates ELSE <<fallbackDate>>
    IN \E i \in 1..Len(datesToCheck) :
          datesToCheck[i] >= rangeStart /\ datesToCheck[i] <= rangeEnd

\* 5. polygon
HasPolygonFilterWhileDrawing(closed, points) == Len(points) >= 3
hasPolygonFilter(closed, points) == closed /\ Len(points) >= 3
PassesPolygon(coordinates, closed, points) ==
    ~(hasPolygonFilter(closed, points) /\ ~isPointInPolygon(coordinates, points))

\* a filter state: the values the map data effect reads
FilterState(cats, sRange, yRange, pRange, dRange, maxDate, closed, points) ==
    [cats |-> cats, sizeRange |-> sRange, yearRange |-> yRange, priceRange |-> pRange,
     dateRange |-> dRange, maxDate |-> maxDate, closed |-> closed, points |-> points]

PassesNoSizeBypass(property, coordinates, f) ==
    /\ PassesPrice(property, f.priceRange)
    /\ ~(property.size_m2 < f.sizeRange[1] \/ property.size_m2 > f.sizeRange[2])
    /\ PassesCategory(property, f.cats)
    /\ PassesYear(property, f.yearRange)
    /\ PassesTimeline(property, f.dateRange, f.maxDate)
    /\ PassesPolygon(coordinates, f.closed, f.points)
PassesInvertedPrice(property, coordinates, f) ==
    /\ (property.price > 0 =>
            (property.price < f.priceRange[1] \/ property.price > f.priceRange[2]))
    /\ PassesSize(property, f.sizeRange)
    /\ PassesCategory(property, f.cats)
    /\ PassesYear(property, f.yearRange)
    /\ PassesTimeline(property, f.dateRange, f.maxDate)
    /\ PassesPolygon(coordinates, f.closed, f.points)
Passes(property, coordinates, f) ==
    /\ PassesPrice(property, f.priceRange)
    /\ PassesSize(property, f.sizeRange)
    /\ PassesCategory(property, f.cats)
    /\ PassesYear(property, f.yearRange)
    /\ PassesTimeline(property, f.dateRange, f.maxDate)
    /\ PassesPolygon(coordinates, f.closed, f.points)

\* the ids of the features handed to source.setData, in listing order
Features(props, f) ==
    LET located == SelectSeq(props,
                      LAMBDA p : parseLocationCoordinates(p.location) # NoCoordinates)
        kept == SelectSeq(located,
                      LAMBDA p : Passes(p, parseLocationCoordinates(p.location), f))
    IN [i \in 1..Len(kept) |-> kept[i].id]

(***************************************************************************)
(* State after construction (useState defaults, nothing mounted yet)       *)
(***************************************************************************)
\* Date.now() at mount
Now == (400 * DAY_MS) + 12

CurrentFilter ==
    FilterState(visibleCategories, sizeRange, yearRange, priceRange, dateRange,
                maxDateAvailable, isPolygonClosed, polygonPoints)

Phase ==
    IF isDraggingVertex THEN "dragging"
    ELSE IF isDrawingPolygon THEN "drawing"
    ELSE IF isPolygonClosed THEN "closed"
    ELSE "idle"

Event(name, arg) == <<name, arg>>

InitPolygon ==
    /\ isDrawingPolygon = FALSE
    /\ polygonPoints = <<>>
    /\ isPolygonClosed = FALSE
    /\ isDraggingVertex = FALSE
    /\ isDrawingPolygonRef = FALSE
    /\ isDraggingVertexRef = FALSE
    /\ draggedVertexIndexRef = NoVertex
    /\ polygonPointsRef = <<>>
    /\ dragPan = TRUE
    /\ cursor = ""

InitData ==
    /\ properties = <<>>
    /\ mapLoaded = FALSE
    /\ sourceData = <<>>
    /\ zoomed = FALSE
    /\ fitCount = 0

InitFilters ==
    /\ visibleCategories = AllVisible
    /\ sizeRange = <<0, 500>>
    /\ maxSizeAvailable = 500
    /\ priceRange = <<0, 5000000>>
    /\ minPriceAvailable = 0
    /\ maxPriceAvailable = 5000000
    /\ yearRange = <<1900, 2030>>
    /\ minYearAvailable = 1900
    /\ maxYearAvailable = 2030
    /\ dateRange = <<toDayStart(Now) - (180 * DAY_MS), toDayStart(Now)>>
    /\ minDateAvailable = toDayStart(Now - (180 * DAY_MS))
    /\ maxDateAvailable = toDayStart(Now)

InitHistory ==
    /\ ev = Event("init", "")
    /\ evFrom = "idle"
    /\ nEdits = 0

\* the pointer is off the map and has clicked nothing
InitPointer ==
    /\ hover = "none"
    /\ popups = 0
    /\ eases = 0
    /\ nClicks = 0

NoPoint == <<>>
InitGeom ==
    /\ geomPoint = NoPoint
    /\ geomPolygon = <<>>
    /\ geomInside = FALSE
    /\ facetListing = <<>>
    /\ facetFilter = <<>>
    /\ facetResult = <<>>

NoStore == [fav |-> Absent, cmp |-> Absent, held |-> FALSE]

\* constructed, with whatever an earlier session left in local storage
InitSel ==
    /\ favoriteIds = <<>>
    /\ compareIds = <<>>
    /\ storedFavorites \in StoredValues
    /\ storedCompare \in StoredValues
    /\ mountPhase = "constructed"
    /\ restoreQueue = [fav |-> NoUpdate, cmp |-> NoUpdate]
    /\ bootStore = [fav |-> storedFavorites, cmp |-> storedCompare, held |-> TRUE]
    /\ InitPolygon /\ InitData /\ InitFilters /\ InitHistory /\ InitPointer /\ InitGeom

\* mounted on a first visit (nothing stored): both keys hold "[]"
InitReady ==
    /\ favoriteIds = <<>>
    /\ compareIds = <<>>
    /\ storedFavorites = JSONStringify(<<>>)
    /\ storedCompare = JSONStringify(<<>>)
    /\ mountPhase = "ready"
    /\ restoreQueue = [fav |-> NoUpdate, cmp |-> NoUpdate]
    /\ bootStore = NoStore
    /\ InitPolygon /\ InitData /\ InitFilters /\ InitHistory /\ InitPointer /\ InitGeom

(***************************************************************************)
(* Startup: the mount effects, then the render of the restored lists       *)
(***************************************************************************)
\* first effect pass: the restore effect queues the stored lists, then the two
\* persist effects write the lists of the first render (both empty)
MountEffects ==
    /\ mountPhase = "constructed"
    /\ restoreQueue' = [fav |-> RestoreFavorites(storedFavorites),
                        cmp |-> RestoreCompare(storedFavorites, storedCompare)]
    /\ storedFavorites' = JSONStringify(favoriteIds)
    /\ storedCompare' = JSONStringify(compareIds)
    /\ mountPhase' = "restoring"
    /\ ev' = Event("mount", "")
    /\ UNCHANGED <<favoriteIds, compareIds, bootStore, evFrom, nEdits>>
    /\ UNCHANGED <<polyVars, dataVars, filterVars, pointerVars, geomVars>>

\* the queued updates are rendered; each persist effect runs for a list that was set
MountRerender ==
    /\ mountPhase = "restoring"
    /\ favoriteIds' = IF restoreQueue.fav.set THEN restoreQueue.fav.value ELSE favoriteIds
    /\ compareIds' = IF restoreQueue.cmp.set THEN restoreQueue.cmp.value ELSE compareIds
    /\ storedFavorites' = IF restoreQueue.fav.set THEN JSONStringify(favoriteIds')
                          ELSE storedFavorites
    /\ storedCompare' = IF restoreQueue.cmp.set THEN JSONStringify(compareIds')
                        ELSE storedCompare
    /\ restoreQueue' = [fav |-> NoUpdate, cmp |-> NoUpdate]
    /\ mountPhase' = "ready"
    /\ bootStore' = NoStore
    /\ ev' = Event("restore", "")
    /\ UNCHANGED <<evFrom, nEdits>>
    /\ UNCHANGED <<polyVars, dataVars, filterVars, pointerVars, geomVars>>

(***************************************************************************)
(* Selection list handlers, each with the persist effect of the list it set *)
(***************************************************************************)
ToggleFavorite(id) ==
    /\ mountPhase = "ready"
    /\ favoriteIds' = toggleFavoriteById(favoriteIds, id)
    /\ storedFavorites' = JSONStringify(favoriteIds')
    /\ ev' = Event("toggleFavorite", id)
    /\ UNCHANGED <<compareIds, storedCompare, mountPhase, restoreQueue, bootStore, evFrom, nEdits>>
    /\ UNCHANGED <<polyVars, dataVars, filterVars, pointerVars, geomVars>>

\* at capacity the updater returns prev itself: no render, no persist effect
ToggleCompare(id) ==
    /\ mountPhase = "ready"
    /\ compareIds' = toggleCompareById(compareIds, id)
    /\ storedCompare' = IF Includes(compareIds, id) \/ compareIds' # compareIds
                        THEN JSONStringify(compareIds') ELSE storedCompare
    /\ ev' = Event("toggleCompare", id)
    /\ UNCHANGED <<favoriteIds, storedFavorites, mountPhase, restoreQueue, bootStore, evFrom, nEdits>>
    /\ UNCHANGED <<polyVars, dataVars, filterVars, pointerVars, geomVars>>

RemoveFavorite(id) ==
    /\ mountPhase = "ready"
    /\ favoriteIds' = removeFromFavorites(favoriteIds, id)
    /\ storedFavorites' = JSONStringify(favoriteIds')
    /\ ev' = Event("removeFromFavorites", id)
    /\ UNCHANGED <<compareIds, storedCompare, mountPhase, restoreQueue, bootStore, evFrom, nEdits>>
    /\ UNCHANGED <<polyVars, dataVars, filterVars, pointerVars, geomVars>>

RemoveCompare(id) ==
    /\ mountPhase = "ready"
    /\ compareIds' = removeFromCompare(compareIds, id)
    /\ storedCompare' = JSONStringify(compareIds')
    /\ ev' = Event("removeFromCompare", id)
    /\ UNCHANGED <<favoriteIds, storedFavorites, mountPhase, restoreQueue, bootStore, evFrom, nEdits>>
    /\ UNCHANGED <<polyVars, dataVars, filterVars, pointerVars, geomVars>>

NextSel ==
    \/ MountEffects
    \/ MountRerender
    \/ \E id \in FavIds : ToggleFavorite(id)
    \/ \E id \in Ids : ToggleCompare(id)
    \/ \E id \in FavIds : RemoveFavorite(id)
    \/ \E id \in Ids : RemoveCompare(id)

SpecSel == InitSel /\ [][NextSel]_vars

(***************************************************************************)
(* Effects that follow a render                                            *)
(***************************************************************************)
CursorFor(dragging, drawing) ==
    IF dragging THEN "grabbing" ELSE IF drawing THEN "crosshair" ELSE ""

\* the ref mirrors, and the cursor effect when isDrawingPolygon or isDraggingVertex
\* changed; handlerCursor is the cursor the handler itself left
PolygonEffects(handlerCursor) ==
    /\ isDrawingPolygonRef' = isDrawingPolygon'
    /\ polygonPointsRef' = polygonPoints'
    /\ cursor' = IF isDrawingPolygon' # isDrawingPolygon \/ isDraggingVertex' # isDraggingVertex
                 THEN CursorFor(isDraggingVertex', isDrawingPolygon')
                 ELSE handlerCursor

\* 4. the map data effect: returns early until the map has loaded, else replaces the
\* source content and auto-zooms once on a non-empty set
FitWithoutFlag(flag, features) == features # <<>>
\* the auto-zoom block: fitBounds is called for a non-empty set while dataset.zoomed
\* is unset (zoom === 12 always holds, the zoom state is never set)
FitIssued(flag, features) == ~flag /\ features # <<>>

\* setData guarded by features.length > 0: an emptied set leaves the old content
MapDataEffectSkippingEmpty ==
    LET features == Features(properties', CurrentFilter')
        fit == mapLoaded' /\ FitIssued(zoomed, features)
    IN /\ sourceData' = IF mapLoaded' /\ features # <<>> THEN features ELSE sourceData
       /\ zoomed' = (zoomed \/ fit)
       /\ fitCount' = IF fit THEN fitCount + 1 ELSE fitCount

MapDataEffect ==
    LET features == Features(properties', CurrentFilter')
        fit == mapLoaded' /\ FitIssued(zoomed, features)
    IN /\ sourceData' = IF mapLoaded' THEN features ELSE sourceData
       /\ zoomed' = (zoomed \/ fit)
       /\ fitCount' = IF fit THEN fitCount + 1 ELSE fitCount

(***************************************************************************)
(* Map engine load and fetch completion                                    *)
(***************************************************************************)
\* a load after which the map data effect does not run
MapLoadWithoutSync ==
    /\ mountPhase = "ready"
    /\ ~mapLoaded
    /\ mapLoaded' = TRUE
    /\ UNCHANGED <<properties, polyVars, filterVars, selVars, pointerVars, geomVars>>
    /\ UNCHANGED <<sourceData, zoomed, fitCount>>
    /\ ev' = Event("mapload", "")
    /\ UNCHANGED <<evFrom, nEdits>>

MapLoad ==
    /\ mountPhase = "ready"
    /\ ~mapLoaded
    /\ mapLoaded' = TRUE
    /\ UNCHANGED <<properties, polyVars, filterVars, selVars, pointerVars, geomVars>>
    /\ MapDataEffect
    /\ ev' = Event("mapload", "")
    /\ UNCHANGED <<evFrom, nEdits>>

\* setProperties(data), the four bounds effects, and the map data effect: once for the
\* render with the new listings and the old ranges, once more for the ranges just set
LoadListings(data) ==
    LET sb == SizeBounds(data, maxSizeAvailable)
        pb == PriceBounds(data)
        yb == YearBounds(data)
        tb == TimelineBounds(data)
        firstPass == Features(data, CurrentFilter)
        firstFit == mapLoaded /\ FitIssued(zoomed, firstPass)
        secondFit == mapLoaded /\ FitIssued(zoomed \/ firstFit, Features(data, CurrentFilter'))
    IN /\ mountPhase = "ready"
       /\ properties' = data
       /\ maxSizeAvailable' = IF sb.set THEN sb.max ELSE maxSizeAvailable
       /\ sizeRange' = IF sb.set THEN <<0, sb.max>> ELSE sizeRange
       /\ minPriceAvailable' = IF pb.set THEN pb.min ELSE minPriceAvailable
       /\ maxPriceAvailable' = IF pb.set THEN pb.max ELSE maxPriceAvailable
       /\ priceRange' = IF pb.set THEN <<pb.min, pb.max>> ELSE priceRange
       /\ minYearAvailable' = IF yb.set THEN yb.min ELSE minYearAvailable
       /\ maxYearAvailable' = IF yb.set THEN yb.max ELSE maxYearAvailable
       /\ yearRange' = IF yb.set THEN <<yb.min, yb.max>> ELSE yearRange
       /\ minDateAvailable' = IF tb.set THEN tb.min ELSE minDateAvailable
       /\ maxDateAvailable' = IF tb.set THEN tb.max ELSE maxDateAvailable
       /\ dateRange' = IF tb.set THEN <<tb.min, tb.max>> ELSE dateRange
       /\ UNCHANGED <<visibleCategories, mapLoaded, polyVars, selVars, pointerVars, geomVars>>
       /\ sourceData' = IF mapLoaded THEN Features(data, CurrentFilter') ELSE sourceData
       /\ zoomed' = (zoomed \/ firstFit \/ secondFit)
       /\ fitCount' = fitCount + (IF firstFit THEN 1 ELSE 0) + (IF secondFit THEN 1 ELSE 0)
       /\ ev' = Event("fetch", "")
       /\ UNCHANGED <<evFrom, nEdits>>

(***************************************************************************)
(* Polygon search: the three buttons and the map pointer events            *)
(***************************************************************************)
\* where a click or a pointer move lands
ClickPoints == {<<0, 0>>, <<0, 10>>, <<10, 10>>, <<10, 0>>}

PolygonFrame(name) ==
    /\ mountPhase = "ready"
    /\ ev' = Event(name, "")
    /\ evFrom' = Phase
    /\ UNCHANGED <<nEdits, properties, mapLoaded, selVars, filterVars, pointerVars, geomVars>>

startPolygonDrawing ==
    /\ PolygonFrame("start")
    /\ isDraggingVertexRef' = FALSE
    /\ draggedVertexIndexRef' = NoVertex
    /\ isDraggingVertex' = FALSE
    /\ dragPan' = TRUE
    /\ polygonPoints' = <<>>
    /\ isPolygonClosed' = FALSE
    /\ isDrawingPolygon' = TRUE
    /\ PolygonEffects(cursor)
    /\ MapDataEffect

CompleteWithoutLengthCheck ==
    /\ PolygonFrame("complete")
    /\ isPolygonClosed' = TRUE
    /\ isDrawingPolygon' = FALSE
    /\ UNCHANGED <<polygonPoints, isDraggingVertex, isDraggingVertexRef,
                   draggedVertexIndexRef, dragPan>>
    /\ PolygonEffects(cursor)
    /\ MapDataEffect

completePolygonDrawing ==
    /\ PolygonFrame("complete")
    /\ IF Len(polygonPoints) < 3
       THEN UNCHANGED <<polyVars, sourceData, zoomed, fitCount>>
       ELSE /\ isPolygonClosed' = TRUE
            /\ isDrawingPolygon' = FALSE
            /\ UNCHANGED <<polygonPoints, isDraggingVertex, isDraggingVertexRef,
                           draggedVertexIndexRef, dragPan>>
            /\ PolygonEffects(cursor)
            /\ MapDataEffect

ClearWithoutDragReset ==
    /\ PolygonFrame("clear")
    /\ polygonPoints' = <<>>
    /\ isPolygonClosed' = FALSE
    /\ isDrawingPolygon' = FALSE
    /\ UNCHANGED <<isDraggingVertex, isDraggingVertexRef, draggedVertexIndexRef, dragPan>>
    /\ PolygonEffects(cursor)
    /\ MapDataEffect

clearPolygon ==
    /\ PolygonFrame("clear")
    /\ isDraggingVertexRef' = FALSE
    /\ draggedVertexIndexRef' = NoVertex
    /\ isDraggingVertex' = FALSE
    /\ dragPan' = TRUE
    /\ polygonPoints' = <<>>
    /\ isPolygonClosed' = FALSE
    /\ isDrawingPolygon' = FALSE
    /\ PolygonEffects(cursor)
    /\ MapDataEffect

\* map.on('click'): appends the clicked coordinate while drawing
MapClick(lngLat) ==
    /\ PolygonFrame("click")
    /\ mapLoaded
    /\ isDrawingPolygonRef => Len(polygonPoints) < MaxPoints
    /\ IF ~isDrawingPolygonRef
       THEN UNCHANGED <<polyVars, sourceData, zoomed, fitCount>>
       ELSE /\ polygonPoints' = Append(polygonPoints, lngLat)
            /\ UNCHANGED <<isDrawingPolygon, isPolygonClosed, isDraggingVertex,
                           isDraggingVertexRef, draggedVertexIndexRef, dragPan>>
            /\ PolygonEffects(cursor)
            /\ MapDataEffect

\* map.on('mousedown', POLYGON_POINTS_LAYER_ID): the layer draws the MultiPoint of the
\* polygon points, so the event needs a point.  The engine hands over the feature's
\* coordinates: one pair (geometryType "Point") for a vertex alone in its tile, or the
\* list of pairs (geometryType "MultiPoint"), of which Number() makes NaN and
\* findClosestVertexIndex finds no vertex.
MouseDownWhileDrawing(vertex, geometryType) ==
    /\ PolygonFrame("mousedown")
    /\ mapLoaded
    /\ vertex \in 1..Len(polygonPoints)
    /\ LET closestIndex == IF geometryType = "Point"
                           THEN findClosestVertexIndex(polygonPointsRef, polygonPoints[vertex])
                           ELSE NoVertex
       IN IF closestIndex = NoVertex
          THEN UNCHANGED <<polyVars, sourceData, zoomed, fitCount>>
          ELSE /\ isDraggingVertexRef' = TRUE
               /\ draggedVertexIndexRef' = closestIndex
               /\ isDraggingVertex' = TRUE
               /\ dragPan' = FALSE
               /\ UNCHANGED <<isDrawingPolygon, polygonPoints, isPolygonClosed,
                              sourceData, zoomed, fitCount>>
               /\ PolygonEffects("grabbing")

MouseDownVertex(vertex, geometryType) ==
    /\ PolygonFrame("mousedown")
    /\ mapLoaded
    /\ vertex \in 1..Len(polygonPoints)
    /\ LET closestIndex == IF geometryType = "Point"
                           THEN findClosestVertexIndex(polygonPointsRef, polygonPoints[vertex])
                           ELSE NoVertex
       IN IF isDrawingPolygonRef \/ closestIndex = NoVertex
          THEN UNCHANGED <<polyVars, sourceData, zoomed, fitCount>>
          ELSE /\ isDraggingVertexRef' = TRUE
               /\ draggedVertexIndexRef' = closestIndex
               /\ isDraggingVertex' = TRUE
               /\ dragPan' = FALSE
               /\ UNCHANGED <<isDrawingPolygon, polygonPoints, isPolygonClosed,
                              sourceData, zoomed, fitCount>>
               /\ PolygonEffects("grabbing")

\* a move that always overwrites the first vertex
MouseMoveFirstVertex(lngLat) ==
    /\ PolygonFrame("mousemove")
    /\ mapLoaded
    /\ IF ~isDraggingVertexRef \/ draggedVertexIndexRef = NoVertex
          \/ draggedVertexIndexRef > Len(polygonPoints)
       THEN UNCHANGED <<polyVars, sourceData, zoomed, fitCount>>
       ELSE /\ polygonPoints' = [polygonPoints EXCEPT ![1] = lngLat]
            /\ UNCHANGED <<isDrawingPolygon, isPolygonClosed, isDraggingVertex,
                           isDraggingVertexRef, draggedVertexIndexRef, dragPan>>
            /\ PolygonEffects(cursor)
            /\ MapDataEffect

\* map.on('mousemove'): overwrites the dragged vertex
MouseMove(lngLat) ==
    /\ PolygonFrame("mousemove")
    /\ mapLoaded
    /\ IF ~isDraggingVertexRef \/ draggedVertexIndexRef = NoVertex
          \/ draggedVertexIndexRef > Len(polygonPoints)
       THEN UNCHANGED <<polyVars, sourceData, zoomed, fitCount>>
       ELSE /\ polygonPoints' = [polygonPoints EXCEPT ![draggedVertexIndexRef] = lngLat]
            /\ UNCHANGED <<isDrawingPolygon, isPolygonClosed, isDraggingVertex,
                           isDraggingVertexRef, draggedVertexIndexRef, dragPan>>
            /\ PolygonEffects(cursor)
            /\ MapDataEffect

\* map.on('mouseup') and map.on('dragend')
stopVertexDragging(name) ==
    /\ PolygonFrame(name)
    /\ mapLoaded
    /\ IF ~isDraggingVertexRef
       THEN UNCHANGED <<polyVars, sourceData, zoomed, fitCount>>
       ELSE /\ isDraggingVertexRef' = FALSE
            /\ draggedVertexIndexRef' = NoVertex
            /\ isDraggingVertex' = FALSE
            /\ dragPan' = TRUE
            /\ UNCHANGED <<isDrawingPolygon, polygonPoints, isPolygonClosed,
                           sourceData, zoomed, fitCount>>
            /\ PolygonEffects(CursorFor(FALSE, isDrawingPolygonRef))

\* the array the polygon is drawn over
PolygonArrays == {<<ListingA, ListingB, ListingC, ListingD>>}

NextPoly ==
    \/ MapLoad
    \/ \E data \in PolygonArrays : LoadListings(data)
    \/ startPolygonDrawing
    \/ completePolygonDrawing
    \/ clearPolygon
    \/ \E lngLat \in ClickPoints : MapClick(lngLat)
    \/ \E vertex \in 1..MaxPoints, geometryType \in {"Point", "MultiPoint"} :
          MouseDownVertex(vertex, geometryType)
    \/ \E lngLat \in ClickPoints : MouseMove(lngLat)
    \/ \E name \in {"mouseup", "dragend"} : stopVertexDragging(name)

SpecPoly == InitReady /\ [][NextPoly]_vars

(***************************************************************************)
(* Filter controls: category toggles and range sliders.  A range input     *)
(* delivers a value between its min and max attributes.                    *)
(***************************************************************************)
SliderValues(lo, hi, stops) == {lo, hi} \cup {v \in stops : lo <= v /\ v <= hi}
PriceStops == {500000}
SizeStops == {60, 100}
YearStops == {2000}
PriceSliderValues == SliderValues(minPriceAvailable, maxPriceAvailable, PriceStops)
SizeSliderValues == SliderValues(0, maxSizeAvailable, SizeStops)
YearSliderValues == SliderValues(minYearAvailable, maxYearAvailable, YearStops)
DateSliderValues ==
    SliderValues(minDateAvailable, maxDateAvailable, {minDateAvailable + DAY_MS})

FilterFrame ==
    /\ mountPhase = "ready"
    /\ nEdits < MaxEdits
    /\ nEdits' = nEdits + 1
    /\ ev' = Event("edit", "")
    /\ UNCHANGED <<evFrom, properties, mapLoaded, polyVars, selVars, pointerVars, geomVars>>
    /\ UNCHANGED <<maxSizeAvailable, minPriceAvailable, maxPriceAvailable,
                   minYearAvailable, maxYearAvailable, minDateAvailable, maxDateAvailable>>

toggleCategory(category) ==
    /\ FilterFrame
    /\ visibleCategories' = [visibleCategories EXCEPT ![category] = ~visibleCategories[category]]
    /\ UNCHANGED <<sizeRange, priceRange, yearRange, dateRange>>
    /\ MapDataEffect

SetPriceMin(raw) ==
    /\ FilterFrame
    /\ priceRange' = <<Min(raw, priceRange[2] - 10000), priceRange[2]>>
    /\ UNCHANGED <<visibleCategories, sizeRange, yearRange, dateRange>>
    /\ MapDataEffect

SetPriceMax(raw) ==
    /\ FilterFrame
    /\ priceRange' = <<priceRange[1], Max(raw, priceRange[1] + 10000)>>
    /\ UNCHANGED <<visibleCategories, sizeRange, yearRange, dateRange>>
    /\ MapDataEffect

SetSizeMin(raw) ==
    /\ FilterFrame
    /\ sizeRange' = <<Min(raw, sizeRange[2] - 1), sizeRange[2]>>
    /\ UNCHANGED <<visibleCategories, priceRange, yearRange, dateRange>>
    /\ MapDataEffect

SetSizeMax(raw) ==
    /\ FilterFrame
    /\ sizeRange' = <<sizeRange[1], Max(raw, sizeRange[1] + 1)>>
    /\ UNCHANGED <<visibleCategories, priceRange, yearRange, dateRange>>
    /\ MapDataEffect

SetYearMin(raw) ==
    /\ FilterFrame
    /\ yearRange' = <<Min(raw, yearRange[2] - 1), yearRange[2]>>
    /\ UNCHANGED <<visibleCategories, sizeRange, priceRange, dateRange>>
    /\ MapDataEffect

SetYearMax(raw) ==
    /\ FilterFrame
    /\ yearRange' = <<yearRange[1], Max(raw, yearRange[1] + 1)>>
    /\ UNCHANGED <<visibleCategories, sizeRange, priceRange, dateRange>>
    /\ MapDataEffect

\* the timeline thumb is disabled unless maxDateAvailable > minDateAvailable
SetDateMin(raw) ==
    /\ FilterFrame
    /\ maxDateAvailable > minDateAvailable
    /\ dateRange' = <<toDayStart(Min(raw, maxDateAvailable - DAY_MS)), maxDateAvailable>>
    /\ UNCHANGED <<visibleCategories, sizeRange, priceRange, yearRange>>
    /\ MapDataEffect

NextFilter ==
    \/ \E data \in ListingArrays : LoadListings(data)
    \/ \E category \in Categories : toggleCategory(category)
    \/ \E raw \in PriceSliderValues : SetPriceMin(raw)
    \/ \E raw \in PriceSliderValues : SetPriceMax(raw)
    \/ \E raw \in SizeSliderValues : SetSizeMin(raw)
    \/ \E raw \in SizeSliderValues : SetSizeMax(raw)
    \/ \E raw \in YearSliderValues : SetYearMin(raw)
    \/ \E raw \in YearSliderValues : SetYearMax(raw)
    \/ \E raw \in DateSliderValues : SetDateMin(raw)

\* the filters are worked on a loaded map: the state MapLoad leaves from InitReady
InitFilter ==
    /\ favoriteIds = <<>>
    /\ compareIds = <<>>
    /\ storedFavorites = JSONStringify(<<>>)
    /\ storedCompare = JSONStringify(<<>>)
    /\ mountPhase = "ready"
    /\ restoreQueue = [fav |-> NoUpdate, cmp |-> NoUpdate]
    /\ bootStore = NoStore
    /\ InitPolygon /\ InitFilters /\ InitPointer /\ InitGeom
    /\ properties = <<>>
    /\ mapLoaded = TRUE
    /\ sourceData = <<>>
    /\ zoomed = FALSE
    /\ fitCount = 0
    /\ ev = Event("mapload", "")
    /\ evFrom = "idle"
    /\ nEdits = 0

SpecFilter == InitFilter /\ [][NextFilter]_vars

(***************************************************************************)
(* The map data source over a session: map load, fetches, category and     *)
(* size edits, and a polygon drawn corner by corner along PolygonPath      *)
(***************************************************************************)
MapArrays == {<<>>, <<ListingB>>, <<ListingA, ListingB, ListingE>>}
PolygonPath == <<<<0, 0>>, <<0, 10>>, <<10, 10>>, <<10, 0>>>>
PathClicks ==
    IF Len(polygonPoints) < Len(PolygonPath) THEN {PolygonPath[Len(polygonPoints) + 1]}
    ELSE {PolygonPath[1]}

NextMap ==
    \/ MapLoad
    \/ \E data \in MapArrays : LoadListings(data)
    \/ \E category \in Categories : toggleCategory(category)
    \/ \E raw \in SizeSliderValues : SetSizeMin(raw)
    \/ startPolygonDrawing
    \/ \E lngLat \in PathClicks : MapClick(lngLat)
    \/ completePolygonDrawing
    \/ clearPolygon

SpecMap == InitReady /\ [][NextMap]_vars

(***************************************************************************)
(* The favorites and compare panels: the listings the id lists resolve to  *)
(***************************************************************************)
\* propertiesById: the Map from String(id) to the last listing of that id
propertiesById(props) ==
    [id \in {props[i].id : i \in 1..Len(props)} |->
        props[CHOOSE i \in 1..Len(props) :
                 props[i].id = id /\ \A k \in (i + 1)..Len(props) : props[k].id # id]]

\* propertiesById.get(id) of an id without listing
Undefined == [id |-> "undefined"]
\* ids.map(get) without the filter(Boolean)
ResolveKeepingUndefined(ids, byId) ==
    [i \in 1..Len(ids) |-> IF ids[i] \in DOMAIN byId THEN byId[ids[i]] ELSE Undefined]
\* ids.map((id) => propertiesById.get(id)).filter(Boolean)
ResolveIds(ids, byId) ==
    LET got == [i \in 1..Len(ids) |-> IF ids[i] \in DOMAIN byId THEN byId[ids[i]] ELSE Undefined]
    IN SelectSeq(got, LAMBDA property : property # Undefined)

favoriteProperties == ResolveIds(favoriteIds, propertiesById(properties))
compareProperties == ResolveIds(compareIds, propertiesById(properties))

(***************************************************************************)
(* Fetch completions in a session that holds selections and a polygon      *)
(***************************************************************************)
\* the lists an earlier session left: <<favorites, compare>>
SelectionSamples == {<<<<>>, <<>>>>, <<<<"a", "d">>, <<"d", "b", "c">>>>}
FetchArrays == {<<>>, <<ListingA, ListingB>>, <<ListingB, ListingD>>}
DragTargets == {<<10, 0>>}

\* mounted with the stored lists restored, map loaded
InitFetch ==
    /\ \E lists \in SelectionSamples :
          /\ favoriteIds = lists[1]
          /\ compareIds = lists[2]
          /\ storedFavorites = JSONStringify(lists[1])
          /\ storedCompare = JSONStringify(lists[2])
    /\ mountPhase = "ready"
    /\ restoreQueue = [fav |-> NoUpdate, cmp |-> NoUpdate]
    /\ bootStore = NoStore
    /\ InitPolygon /\ InitFilters /\ InitPointer /\ InitGeom
    /\ properties = <<>>
    /\ mapLoaded = TRUE
    /\ sourceData = <<>>
    /\ zoomed = FALSE
    /\ fitCount = 0
    /\ ev = Event("mapload", "")
    /\ evFrom = "idle"
    /\ nEdits = 0

NextFetch ==
    \/ \E data \in FetchArrays : LoadListings(data)
    \/ startPolygonDrawing
    \/ \E lngLat \in PathClicks : MapClick(lngLat)
    \/ completePolygonDrawing
    \/ clearPolygon
    \/ \E vertex \in 1..MaxPoints, geometryType \in {"Point", "MultiPoint"} :
          MouseDownVertex(vertex, geometryType)
    \/ \E lngLat \in DragTargets : MouseMove(lngLat)
    \/ \E name \in {"mouseup", "dragend"} : stopVertexDragging(name)

SpecFetch == InitFetch /\ [][NextFetch]_vars

(***************************************************************************)
(* Clicks on the listing layers.  The engine hands a click on a layer's     *)
(* feature to the layer's handler and to the map's own click handler.       *)
(***************************************************************************)
ClickFrame(name, arg) ==
    /\ mountPhase = "ready"
    /\ mapLoaded
    /\ nClicks < MaxClicks
    /\ nClicks' = nClicks + 1
    /\ ev' = Event(name, arg)
    /\ evFrom' = Phase
    /\ UNCHANGED <<nEdits, properties, mapLoaded, selVars, filterVars, geomVars, hover>>

\* an append that skips a coordinate the list already holds
AppendDeduplicated(lngLat) ==
    /\ isDrawingPolygonRef => Len(polygonPoints) < MaxPoints
    /\ IF ~isDrawingPolygonRef \/ lngLat \in SeqSet(polygonPoints)
       THEN UNCHANGED <<polyVars, sourceData, zoomed, fitCount>>
       ELSE /\ polygonPoints' = Append(polygonPoints, lngLat)
            /\ UNCHANGED <<isDrawingPolygon, isPolygonClosed, isDraggingVertex,
                           isDraggingVertexRef, draggedVertexIndexRef, dragPan>>
            /\ PolygonEffects(cursor)
            /\ MapDataEffect

\* map.on('click') for the same click
AppendWhileDrawing(lngLat) ==
    /\ isDrawingPolygonRef => Len(polygonPoints) < MaxPoints
    /\ IF ~isDrawingPolygonRef
       THEN UNCHANGED <<polyVars, sourceData, zoomed, fitCount>>
       ELSE /\ polygonPoints' = Append(polygonPoints, lngLat)
            /\ UNCHANGED <<isDrawingPolygon, isPolygonClosed, isDraggingVertex,
                           isDraggingVertexRef, draggedVertexIndexRef, dragPan>>
            /\ PolygonEffects(cursor)
            /\ MapDataEffect

RenderedListing(id) == CHOOSE i \in 1..Len(properties) : properties[i].id = id

PointClickIgnoringDrawing(id) ==
    /\ ClickFrame("pointclick", id)
    /\ Includes(sourceData, id)
    /\ popups' = popups + 1
    /\ UNCHANGED eases
    /\ AppendWhileDrawing(parseLocationCoordinates(properties[RenderedListing(id)].location))

\* map.on('click', 'unclustered-point'): a popup for the feature (or the stack of
\* features) under the pointer, unless a polygon is being drawn
PointClick(id) ==
    /\ ClickFrame("pointclick", id)
    /\ Includes(sourceData, id)
    /\ popups' = IF isDrawingPolygonRef THEN popups ELSE popups + 1
    /\ UNCHANGED eases
    /\ AppendWhileDrawing(parseLocationCoordinates(properties[RenderedListing(id)].location))

\* map.on('click', 'clusters'): easeTo from the getClusterExpansionZoom callback,
\* unless a polygon is being drawn or the callback gets an error
ClusterClick(lngLat, err) ==
    /\ ClickFrame("clusterclick", "")
    /\ Len(sourceData) >= 2
    /\ eases' = IF isDrawingPolygonRef \/ err THEN eases ELSE eases + 1
    /\ UNCHANGED popups
    /\ AppendWhileDrawing(lngLat)

ClickArrays == {<<ListingA, ListingB, ListingD>>}

NextClick ==
    \/ \E data \in ClickArrays : LoadListings(data)
    \/ startPolygonDrawing
    \/ \E lngLat \in PathClicks : MapClick(lngLat)
    \/ completePolygonDrawing
    \/ clearPolygon
    \/ \E id \in Ids : PointClick(id)
    \/ \E lngLat \in PathClicks, err \in BOOLEAN : ClusterClick(lngLat, err)

SpecClick == InitFilter /\ [][NextClick]_vars

(***************************************************************************)
(* The pointer over the map layers: mouseenter / mouseleave of the cluster, *)
(* listing point and polygon vertex layers.  A button is pressed with the   *)
(* pointer on it, off the map; a vertex is pressed with the pointer on it.  *)
(***************************************************************************)
Layers == {"cluster", "point", "vertex"}

\* the layer has a feature to be over
LayerShown(layer) ==
    IF layer = "vertex" THEN polygonPoints # <<>>
    ELSE IF layer = "point" THEN sourceData # <<>>
    ELSE Len(sourceData) >= 2

HoverFrame(name, layer) ==
    /\ mountPhase = "ready"
    /\ mapLoaded
    /\ ev' = Event(name, layer)
    /\ evFrom' = Phase
    /\ UNCHANGED <<nEdits, selVars, dataVars, filterVars, geomVars, popups, eases, nClicks>>
    /\ UNCHANGED <<isDrawingPolygon, polygonPoints, isPolygonClosed, isDraggingVertex,
                   isDrawingPolygonRef, isDraggingVertexRef, draggedVertexIndexRef,
                   polygonPointsRef, dragPan>>

\* map.on('mouseenter', layer)
MouseEnter(layer) ==
    /\ HoverFrame("mouseenter", layer)
    /\ hover = "none"
    /\ LayerShown(layer)
    /\ hover' = layer
    /\ cursor' = IF layer = "vertex"
                 THEN IF isDrawingPolygonRef THEN cursor
                      ELSE IF isDraggingVertexRef THEN "grabbing" ELSE "grab"
                 ELSE IF isDrawingPolygonRef \/ isDraggingVertexRef THEN cursor
                      ELSE "pointer"

\* map.on('mouseleave', layer)
MouseLeave(layer) ==
    /\ HoverFrame("mouseleave", layer)
    /\ hover = layer
    /\ hover' = "none"
    /\ cursor' = CursorFor(isDraggingVertexRef, isDrawingPolygonRef)

ButtonStart == hover = "none" /\ startPolygonDrawing
ButtonComplete == hover = "none" /\ completePolygonDrawing
ButtonClear == hover = "none" /\ clearPolygon
PressVertex(vertex, geometryType) == hover = "vertex" /\ MouseDownVertex(vertex, geometryType)

CursorArrays == {<<ListingA, ListingB, ListingD>>}

NextCursor ==
    \/ \E data \in CursorArrays : LoadListings(data)
    \/ ButtonStart
    \/ \E lngLat \in PathClicks : MapClick(lngLat)
    \/ ButtonComplete
    \/ ButtonClear
    \/ \E layer \in Layers : MouseEnter(layer)
    \/ \E layer \in Layers : MouseLeave(layer)
    \/ \E vertex \in 1..MaxPoints, geometryType \in {"Point", "MultiPoint"} :
          PressVertex(vertex, geometryType)
    \/ \E lngLat \in DragTargets : MouseMove(lngLat)
    \/ \E name \in {"mouseup", "dragend"} : stopVertexDragging(name)

SpecCursor == InitFilter /\ [][NextCursor]_vars

(***************************************************************************)
(* isPointInPolygon on its own: every polygon of up to MaxVertices         *)
(* vertices and every point of a grid                                      *)
(***************************************************************************)
GeomVertices == {<<0, 0>>, <<0, 10>>, <<10, 10>>, <<10, 0>>, <<5, 15>>}
GeomPoints == {<<x, y>> : x \in {0, 5, 10, 15}, y \in {0, 5, 10, 15}}
GeomPolygons == UNION {[1..n -> GeomVertices] : n \in 0..MaxVertices}

InitGeomInputs ==
    /\ favoriteIds = <<>>
    /\ compareIds = <<>>
    /\ storedFavorites = JSONStringify(<<>>)
    /\ storedCompare = JSONStringify(<<>>)
    /\ mountPhase = "ready"
    /\ restoreQueue = [fav |-> NoUpdate, cmp |-> NoUpdate]
    /\ bootStore = NoStore
    /\ InitPolygon /\ InitData /\ InitFilters /\ InitHistory /\ InitPointer
    /\ geomPoint \in GeomPoints
    /\ geomPolygon \in GeomPolygons
    /\ geomInside = FALSE
    /\ facetListing = <<>>
    /\ facetFilter = <<>>
    /\ facetResult = <<>>

EvaluatePointInPolygon ==
    /\ ev[1] = "init"
    /\ geomInside' = isPointInPolygon(geomPoint, geomPolygon)
    /\ ev' = Event("isPointInPolygon", "")
    /\ UNCHANGED <<geomPoint, geomPolygon, facetVars, evFrom, nEdits>>
    /\ UNCHANGED <<selVars, polyVars, dataVars, filterVars, pointerVars>>

NextGeom == EvaluatePointInPolygon

SpecGeom == InitGeomInputs /\ [][NextGeom]_vars

(***************************************************************************)
(* Startup of the map: the one fetch of the mount effect and the engine's   *)
(* load event, in either order, with category toggles in between           *)
(***************************************************************************)
BootArrays == {<<ListingB>>, <<ListingD>>, <<ListingA, ListingB>>, <<ListingE>>,
               <<ListingA, ListingB, ListingE>>, <<ListingA, ListingB, ListingC, ListingD>>}

\* the fetch of the mount effect resolves with a non-empty array, once
FetchCompletes == properties = <<>> /\ \E data \in BootArrays : LoadListings(data)

NextBoot ==
    \/ MapLoad
    \/ FetchCompletes
    \/ \E category \in Categories : toggleCategory(category)

\* the engine fires load and the fetch resolves; the user need not do anything
SpecBoot ==
    InitReady /\ [][NextBoot]_vars /\ WF_vars(MapLoad) /\ WF_vars(FetchCompletes)

(***************************************************************************)
(* The compare panel: lists restored from an earlier session, whose         *)
(* listings the current fetch may no longer deliver, and compare toggles    *)
(***************************************************************************)
PanelArrays == {<<ListingA, ListingB>>, <<ListingA, ListingB, ListingC, ListingD>>}

\* mounted with the stored compare list restored, map loaded
InitPanel ==
    /\ favoriteIds = <<>>
    /\ compareIds \in {<<>>, <<"e", "d">>, <<"c", "d", "e", "a">>}
    /\ storedFavorites = JSONStringify(favoriteIds)
    /\ storedCompare = JSONStringify(compareIds)
    /\ mountPhase = "ready"
    /\ restoreQueue = [fav |-> NoUpdate, cmp |-> NoUpdate]
    /\ bootStore = NoStore
    /\ InitPolygon /\ InitFilters /\ InitPointer /\ InitGeom
    /\ properties = <<>>
    /\ mapLoaded = TRUE
    /\ sourceData = <<>>
    /\ zoomed = FALSE
    /\ fitCount = 0
    /\ ev = Event("mapload", "")
    /\ evFrom = "idle"
    /\ nEdits = 0

NextPanel ==
    \/ \E data \in PanelArrays : LoadListings(data)
    \/ \E id \in Ids : ToggleCompare(id)
    \/ \E id \in Ids : RemoveCompare(id)

SpecPanel == InitPanel /\ [][NextPanel]_vars

(***************************************************************************)
(* The price bounds: fetches of arrays of one or two listings over a range  *)
(* of prices, and moves of the price thumbs in between                      *)
(***************************************************************************)
PriceSamples == {0, 9999, 234567, 800000, 995001, 1250000}
PricedListing(id, price) == [ListingA EXCEPT !.id = id, !.price = price]
PriceArrays ==
    {<<PricedListing("a", p)>> : p \in PriceSamples}
        \cup {<<PricedListing("a", p), PricedListing("b", q)>> :
                 p \in PriceSamples, q \in PriceSamples}

NextPrice ==
    \/ \E data \in PriceArrays : LoadListings(data)
    \/ \E raw \in PriceSliderValues : SetPriceMin(raw)
    \/ \E raw \in PriceSliderValues : SetPriceMax(raw)

SpecPrice == InitFilter /\ [][NextPrice]_vars

(***************************************************************************)
(* The filter predicate on its own: one listing against one filter state   *)
(***************************************************************************)
FacetListings ==
    {[id |-> "f", price |-> p, size_m2 |-> s, year_built |-> y, location |-> Wkt(4, 6),
      price_history |-> h, created_at |-> 0 - 1] :
        p \in {0 - 1, 0, 149999, 150000, 249999, 250000, 1250000},
        s \in {0, 50},
        y \in {0, 1990},
        h \in {<<>>, <<0 - 1>>, <<7200>>, <<7000, 9010>>}}

\* all categories visible or one of them hidden; the polygon absent or a closed
\* triangle around the listing
FacetFilters ==
    {FilterState(cats, sRange, yRange, pRange, dRange, 9600, poly.closed, poly.points) :
        cats \in {AllVisible} \cup {[AllVisible EXCEPT ![c] = FALSE] : c \in Categories},
        sRange \in {<<0, 500>>, <<60, 100>>},
        yRange \in {<<1900, 2030>>, <<2000, 2010>>},
        pRange \in {<<0, 5000000>>, <<300000, 500000>>},
        dRange \in {<<7200, 9600>>, <<9000, 9600>>},
        poly \in {[closed |-> FALSE, points |-> <<>>],
                  [closed |-> TRUE, points |-> <<<<0, 0>>, <<0, 10>>, <<10, 10>>>>]}}

InitFacetInputs ==
    /\ favoriteIds = <<>>
    /\ compareIds = <<>>
    /\ storedFavorites = JSONStringify(<<>>)
    /\ storedCompare = JSONStringify(<<>>)
    /\ mountPhase = "ready"
    /\ restoreQueue = [fav |-> NoUpdate, cmp |-> NoUpdate]
    /\ bootStore = NoStore
    /\ InitPolygon /\ InitData /\ InitFilters /\ InitHistory /\ InitPointer
    /\ geomPoint = NoPoint
    /\ geomPolygon = <<>>
    /\ geomInside = FALSE
    /\ facetListing \in FacetListings
    /\ facetFilter \in FacetFilters
    /\ facetResult = <<>>

\* the callback of the second .filter of the map data effect, for one listing
EvaluateFilter ==
    /\ ev[1] = "init"
    /\ facetResult' =
          [passes |-> Passes(facetListing,
                             parseLocationCoordinates(facetListing.location), facetFilter),
           bucket |-> Bucket(facetListing)]
    /\ ev' = Event("filter", "")
    /\ UNCHANGED <<facetListing, facetFilter, geomPoint, geomPolygon, geomInside,
                   evFrom, nEdits>>
    /\ UNCHANGED <<selVars, polyVars, dataVars, filterVars, pointerVars>>

SpecFacet == InitFacetInputs /\ [][EvaluateFilter]_vars

(***************************************************************************)
(* Properties of the selection lists (checked under SpecSel)               *)
(***************************************************************************)
\* C1: the compare list never holds more than MAX_COMPARE_ITEMS ids, whatever
\* array was stored at startup and whatever toggles and removals follow; a
\* toggleCompare of an absent id on a full list leaves the list as it was.
C1_CompareAtMostFour ==
    /\ [](Len(compareIds) <= MAX_COMPARE_ITEMS)
    /\ [][(/\ ev'[1] = "toggleCompare"
           /\ ~Includes(compareIds, ev'[2])
           /\ Len(compareIds) = MAX_COMPARE_ITEMS) => compareIds' = compareIds]_vars

\* a full list on which toggleCompare of an absent id has just been handled
C1_Witness ==
    /\ ev[1] = "toggleCompare"
    /\ ~Includes(compareIds, ev[2])
    /\ Len(compareIds) = MAX_COMPARE_ITEMS

\* C2: from every reachable favorites list and every id, two toggleFavorite
\* calls in a row give back the membership the list had; the same for two
\* toggleCompare calls from every reachable compare list.
C2_DoubleToggle ==
    \A id \in Ids :
        /\ SeqSet(toggleFavoriteById(toggleFavoriteById(favoriteIds, id), id))
              = SeqSet(favoriteIds)
        /\ SeqSet(toggleCompareById(toggleCompareById(compareIds, id), id))
              = SeqSet(compareIds)

\* a toggle has just filled the compare list, and favorites hold a restored duplicate
C2_Witness ==
    /\ ev[1] = "toggleCompare"
    /\ Includes(compareIds, ev[2])
    /\ Len(compareIds) = MAX_COMPARE_ITEMS
    /\ \E i, j \in 1..Len(favoriteIds) : i # j /\ favoriteIds[i] = favoriteIds[j]

(***************************************************************************)
(* Properties of the filter predicate and the bounds (under SpecFilter)    *)
(***************************************************************************)
Rendered(f) == SeqSet(Features(properties, f))
\* the ranges that contain range r, with ends among vals
Widenings(r, vals) ==
    {<<a, b>> : a \in {v \in vals : v <= r[1]}, b \in {v \in vals : v >= r[2]}}
PriceEnds == {0, 200000, 800000, 5000000}
SizeEnds == {0, 50, 100, 620}
YearEnds == {1900, 1990, 2005, 2030}
DateEnds == {0, 7200, 9000, 9600}
PolygonSamples ==
    {[closed |-> FALSE, points |-> <<>>],
     [closed |-> TRUE, points |-> <<<<0, 0>>, <<0, 10>>, <<10, 10>>>>]}

\* C3: with the listings, the polygon and the other facets fixed, a wider
\* price, size or year range, an earlier timeline start day, or one more
\* visible category renders a superset of what was rendered.
C3_FacetsMonotonic ==
    \A poly \in PolygonSamples :
        LET f == [CurrentFilter EXCEPT !.closed = poly.closed, !.points = poly.points]
            base == Rendered(f)
        IN /\ \A w \in Widenings(f.priceRange, PriceEnds) :
                 base \subseteq Rendered([f EXCEPT !.priceRange = w])
           /\ \A w \in Widenings(f.sizeRange, SizeEnds) :
                 base \subseteq Rendered([f EXCEPT !.sizeRange = w])
           /\ \A w \in Widenings(f.yearRange, YearEnds) :
                 base \subseteq Rendered([f EXCEPT !.yearRange = w])
           /\ \A d \in {v \in DateEnds : v <= f.dateRange[1]} :
                 base \subseteq Rendered([f EXCEPT !.dateRange = <<d, f.dateRange[2]>>])
           /\ \A c \in {k \in Categories : ~f.cats[k]} :
                 base \subseteq Rendered([f EXCEPT !.cats[c] = TRUE])

\* a narrowed size range hides a listing that a wider one shows
C3_Witness ==
    /\ ev[1] = "edit"
    /\ \E w \in Widenings(sizeRange, SizeEnds) :
          /\ SeqSet(sourceData) \subseteq Rendered([CurrentFilter EXCEPT !.sizeRange = w])
          /\ SeqSet(sourceData) # Rendered([CurrentFilter EXCEPT !.sizeRange = w])

\* the largest size_m2 of a non-empty array, rounded up to a multiple of 10
ObservedMaxSize(props) ==
    LET sizes == {props[i].size_m2 : i \in 1..Len(props)}
        largest == CHOOSE m \in sizes : \A v \in sizes : v <= m
    IN IF largest % 10 = 0 THEN largest ELSE largest + (10 - (largest % 10))

\* C4: no step lowers maxSizeAvailable; a fetch whose array has a rounded-up
\* maximum size above the stored maximum stores it and resets sizeRange to
\* <<0, maximum>>, and every other fetch leaves both as they were.
C4_MaxSizeOnlyGrows ==
    /\ [][maxSizeAvailable' >= maxSizeAvailable]_vars
    /\ [][ev'[1] = "fetch" =>
            IF Len(properties') > 0 /\ ObservedMaxSize(properties') > maxSizeAvailable
            THEN /\ maxSizeAvailable' = ObservedMaxSize(properties')
                 /\ sizeRange' = <<0, maxSizeAvailable'>>
            ELSE UNCHANGED <<maxSizeAvailable, sizeRange>>]_vars

\* the maximum has grown with an earlier array and a smaller array has been fetched since
C4_Witness ==
    /\ ev[1] = "fetch"
    /\ Len(properties) > 0
    /\ ObservedMaxSize(properties) < maxSizeAvailable
    /\ maxSizeAvailable > 500

\* what an array offers each facet
PositivePrices(props) == {v \in {props[i].price : i \in 1..Len(props)} : v > 0}
PositiveYears(props) == {v \in {props[i].year_built : i \in 1..Len(props)} : v > 0}
ListingDays(props) == UNION {PropertyDates(props[i]) : i \in 1..Len(props)}
Least(S) == CHOOSE m \in S : \A v \in S : m <= v
Greatest(S) == CHOOSE m \in S : \A v \in S : v <= m
RoundedPrices(props) ==
    LET hi == Min(CeilTo(Greatest(PositivePrices(props)), 10000), PRICE_FILTER_CAP)
    IN <<Min(FloorTo(Least(PositivePrices(props)), 10000), hi), hi>>

\* the ranges a first fetch of props leaves: derived from props, else the defaults
FirstFetchRanges(props) ==
    [price |-> IF PositivePrices(props) # {} THEN RoundedPrices(props) ELSE <<0, 5000000>>,
     year |-> IF PositiveYears(props) # {}
              THEN <<Least(PositiveYears(props)), Greatest(PositiveYears(props))>>
              ELSE <<1900, 2030>>,
     date |-> IF ListingDays(props) # {}
              THEN <<Least(ListingDays(props)), Greatest(ListingDays(props))>>
              ELSE <<toDayStart(Now) - (180 * DAY_MS), toDayStart(Now)>>]

\* C5 as claimed: after every fetch the price, year and timeline ranges, selected
\* and available, are those a first fetch of the same array leaves, whatever
\* they were before.
C5_AsClaimed ==
    ev[1] = "fetch" =>
        /\ priceRange = FirstFetchRanges(properties).price
        /\ <<minPriceAvailable, maxPriceAvailable>> = FirstFetchRanges(properties).price
        /\ yearRange = FirstFetchRanges(properties).year
        /\ <<minYearAvailable, maxYearAvailable>> = FirstFetchRanges(properties).year
        /\ dateRange[1] = FirstFetchRanges(properties).date[1]
        /\ maxDateAvailable = FirstFetchRanges(properties).date[2]

\* C5 (amended): a fetch resets the price (year, timeline) ranges, selected and
\* available, to the minimum and maximum derived from the new array alone when
\* the array holds a positive price (a positive year_built, a parseable history
\* or creation date); a facet the array holds no such value for keeps the
\* ranges it had.
C5_ResetWhereDataExists ==
    [][ev'[1] = "fetch" =>
        /\ IF PositivePrices(properties') # {}
           THEN /\ priceRange' = RoundedPrices(properties')
                /\ <<minPriceAvailable', maxPriceAvailable'>> = RoundedPrices(properties')
           ELSE UNCHANGED <<priceRange, minPriceAvailable, maxPriceAvailable>>
        /\ IF PositiveYears(properties') # {}
           THEN /\ yearRange' = <<Least(PositiveYears(properties')),
                                  Greatest(PositiveYears(properties'))>>
                /\ <<minYearAvailable', maxYearAvailable'>> = yearRange'
           ELSE UNCHANGED <<yearRange, minYearAvailable, maxYearAvailable>>
        /\ IF ListingDays(properties') # {}
           THEN /\ dateRange' = <<Least(ListingDays(properties')),
                                  Greatest(ListingDays(properties'))>>
                /\ <<minDateAvailable', maxDateAvailable'>> = dateRange'
           ELSE UNCHANGED <<dateRange, minDateAvailable, maxDateAvailable>>]_vars

\* a fetch of an array without a year has kept a year range that an earlier
\* array set, while the price range follows the new array
C5_Witness ==
    /\ ev[1] = "fetch"
    /\ PositiveYears(properties) = {}
    /\ PositivePrices(properties) # {}
    /\ priceRange = RoundedPrices(properties)
    /\ yearRange # <<1900, 2030>>

\* listings A and B are loaded and the price, year and timeline sliders stand
\* where the bounds recompute put them
EndToEndScenario ==
    /\ mapLoaded
    /\ properties = <<ListingA, ListingB>>
    /\ priceRange = <<minPriceAvailable, maxPriceAvailable>>
    /\ yearRange = <<minYearAvailable, maxYearAvailable>>
    /\ dateRange = <<minDateAvailable, maxDateAvailable>>

\* C10: in the end-to-end scenario both listings are rendered with all
\* categories visible and the full size range; hiding "unknown" leaves A alone;
\* with the size range <<60, 100>> A is gone whatever the categories, and B is
\* rendered exactly when "unknown" is visible.
C10_EndToEndScenario ==
    EndToEndScenario =>
        /\ (visibleCategories = AllVisible /\ sizeRange = <<0, maxSizeAvailable>>)
              => sourceData = <<"a", "b">>
        /\ (/\ visibleCategories = [AllVisible EXCEPT !["unknown"] = FALSE]
            /\ sizeRange = <<0, maxSizeAvailable>>)
              => sourceData = <<"a">>
        /\ sizeRange = <<60, 100>> =>
              /\ visibleCategories = AllVisible => sourceData = <<"b">>
              /\ \A cats \in [Categories -> BOOLEAN] :
                    /\ "a" \notin Rendered([CurrentFilter EXCEPT !.cats = cats])
                    /\ "b" \in Rendered([CurrentFilter EXCEPT !.cats = cats])
                          <=> cats["unknown"]

\* the size range <<60, 100>> has been selected and only B is left
C10_Witness ==
    /\ EndToEndScenario
    /\ ev[1] = "edit"
    /\ sizeRange = <<60, 100>>
    /\ sourceData = <<"b">>

(***************************************************************************)
(* Properties of the polygon state machine (checked under SpecPoly)        *)
(***************************************************************************)
\* C6: a closed polygon has at least 3 points and the state is never both
\* drawing and closed; complete with fewer than 3 points changes neither the
\* points nor the two flags, and complete while drawing with 3 or more points
\* closes the polygon and keeps the points.
C6_CompleteNeedsThreePoints ==
    /\ [](/\ isPolygonClosed => Len(polygonPoints) >= 3
          /\ ~(isDrawingPolygon /\ isPolygonClosed))
    /\ [][ev'[1] = "complete" =>
            IF Len(polygonPoints) < 3
            THEN UNCHANGED <<polygonPoints, isDrawingPolygon, isPolygonClosed>>
            ELSE isDrawingPolygon =>
                    /\ isPolygonClosed' /\ ~isDrawingPolygon'
                    /\ polygonPoints' = polygonPoints]_vars

\* complete has just closed a polygon that was being drawn
C6_Witness ==
    /\ ev[1] = "complete"
    /\ evFrom = "drawing"
    /\ isPolygonClosed

\* C7: the dragging flag (state and ref) is set only while the polygon is
\* closed, never while drawing or idle; a press-down on a vertex handled while
\* drawing starts no drag.
C7_DragOnlyWhileClosed ==
    /\ [](/\ isDraggingVertex => (isPolygonClosed /\ ~isDrawingPolygon)
          /\ isDraggingVertexRef = isDraggingVertex)
    /\ [][(ev'[1] = "mousedown" /\ isDrawingPolygon) => ~isDraggingVertex']_vars

\* a press-down on a vertex of a closed polygon has started a drag
C7_Witness ==
    /\ ev[1] = "mousedown"
    /\ evFrom = "closed"
    /\ isDraggingVertex

\* C8: right after start-drawing or clear, from whatever phase, there are no
\* points, the polygon is not closed, no drag is in progress, no vertex index
\* is held and panning is enabled; start leaves the state drawing, clear idle.
C8_StartAndClearReset ==
    ev[1] \in {"start", "clear"} =>
        /\ polygonPoints = <<>>
        /\ ~isPolygonClosed
        /\ ~isDraggingVertex /\ ~isDraggingVertexRef
        /\ draggedVertexIndexRef = NoVertex
        /\ dragPan
        /\ isDrawingPolygon = (ev[1] = "start")

\* clear has been handled in the middle of a vertex drag
C8_Witness ==
    /\ ev[1] = "clear"
    /\ evFrom = "dragging"

\* the point lists a drawing can hold
PointLists == UNION {[1..n -> ClickPoints] : n \in 0..MaxPoints}
ListingOf(id) == CHOOSE i \in 1..Len(properties) : properties[i].id = id
CoordinatesOf(id) == parseLocationCoordinates(properties[ListingOf(id)].location)
NoPolygonFeatures ==
    Features(properties, [CurrentFilter EXCEPT !.closed = FALSE, !.points = <<>>])

\* C9: while the polygon is not closed (idle, drawing, after clear) the source
\* holds what it would hold for any other point list, the empty one included;
\* once closed (with at least 3 points) it holds exactly the listings of that
\* set whose coordinates satisfy isPointInPolygon for the current points.
C9_PolygonFacetOnlyWhenClosed ==
    mapLoaded =>
        /\ ~isPolygonClosed =>
              \A pts \in PointLists :
                  Features(properties, [CurrentFilter EXCEPT !.points = pts]) = sourceData
        /\ isPolygonClosed =>
              /\ Len(polygonPoints) >= 3
              /\ sourceData = SelectSeq(NoPolygonFeatures,
                      LAMBDA id : isPointInPolygon(CoordinatesOf(id), polygonPoints))

\* a closed polygon that keeps some of the listings and drops others
C9_Witness ==
    /\ mapLoaded
    /\ isPolygonClosed
    /\ sourceData # <<>>
    /\ Len(sourceData) < Len(NoPolygonFeatures)

(***************************************************************************)
(* Properties of isPointInPolygon (checked under SpecGeom)                 *)
(***************************************************************************)
\* edge a-b crosses the half-line running right from the point: one end is above the
\* point's height and the other is not, and the point lies strictly left of the line
\* through the lower and the upper end
CrossesRay(point, a, b) ==
    LET lower == IF a[2] <= b[2] THEN a ELSE b
        upper == IF a[2] <= b[2] THEN b ELSE a
    IN /\ lower[2] <= point[2]
       /\ point[2] < upper[2]
       /\ (point[1] - lower[1]) * (upper[2] - lower[2])
             < (upper[1] - lower[1]) * (point[2] - lower[2])

\* even-odd rule: an odd number of edges of the closed vertex sequence crosses the ray
EvenOddInside(point, polygon) ==
    LET n == Len(polygon)
        next(k) == IF k = n THEN 1 ELSE k + 1
    IN Cardinality({k \in 1..n : CrossesRay(point, polygon[k], polygon[next(k)])}) % 2 = 1

Square == <<<<0, 0>>, <<0, 10>>, <<10, 10>>, <<10, 0>>>>

\* C11: for every grid point and every polygon, isPointInPolygon gives the answer of
\* the even-odd ray rule over the closed vertex sequence; it gives false for every
\* polygon of fewer than 3 vertices; for the square (0,0),(0,10),(10,10),(10,0) it
\* gives true for (5,5) and false for (15,15).
C11_EvenOddRule ==
    ev[1] = "isPointInPolygon" =>
        /\ geomInside = EvenOddInside(geomPoint, geomPolygon)
        /\ Len(geomPolygon) < 3 => ~geomInside
        /\ (geomPolygon = Square /\ geomPoint = <<5, 5>>) => geomInside
        /\ (geomPolygon = Square /\ geomPoint = <<15, 15>>) => ~geomInside

\* the square evaluated for its centre
C11_Witness ==
    /\ ev[1] = "isPointInPolygon"
    /\ geomPolygon = Square
    /\ geomPoint = <<5, 5>>
    /\ geomInside

(***************************************************************************)
(* Properties of the map data source (checked under SpecMap)               *)
(***************************************************************************)
\* C12: fitBounds is called at most once in a session; it is called only by a sync
\* of a non-empty set (for a fetch, the sync with the old ranges or the one with
\* the new ranges); every state that shows a non-empty set has had the call; once
\* made, no later sync makes it again.
C12_FitAtMostOnce ==
    /\ [](fitCount <= 1)
    /\ []((mapLoaded /\ sourceData # <<>>) => fitCount = 1)
    /\ [][fitCount' # fitCount =>
            /\ fitCount = 0
            /\ mapLoaded'
            /\ \/ sourceData' # <<>>
               \/ ev'[1] = "fetch" /\ Features(properties', CurrentFilter) # <<>>]_vars
    /\ [][fitCount = 1 => fitCount' = 1]_vars

\* after the call was made, a category or size edit has emptied the rendered set
C12_Witness ==
    /\ fitCount = 1
    /\ mapLoaded
    /\ properties # <<>>
    /\ ev[1] = "edit"
    /\ sourceData = <<>>

\* the ids of the listings that resolve a coordinate pair and pass the six facets
\* under the current filter and polygon state
PassingIds ==
    {properties[i].id : i \in {k \in 1..Len(properties) :
        LET p == properties[k]
            c == parseLocationCoordinates(p.location)
        IN /\ c # NoCoordinates
           /\ PassesPrice(p, priceRange)
           /\ PassesSize(p, sizeRange)
           /\ PassesCategory(p, visibleCategories)
           /\ PassesYear(p, yearRange)
           /\ PassesTimeline(p, dateRange, maxDateAvailable)
           /\ PassesPolygon(c, isPolygonClosed, polygonPoints)}}

\* C13: once the map is loaded, after every event and its effects the source holds
\* one feature for each listing that resolves a coordinate pair and passes the six
\* facets under the current state, and nothing else.
C13_SourceIsFilteredSet ==
    mapLoaded =>
        /\ SeqSet(sourceData) = PassingIds
        /\ Len(sourceData) = Cardinality(PassingIds)

\* the source after a change that dropped a listing shown before, with a listing
\* of the array that resolves no coordinate pair
C13_Witness ==
    /\ mapLoaded
    /\ properties = <<ListingA, ListingB, ListingE>>
    /\ sourceData = <<"b">>
    /\ ev[1] \in {"edit", "complete"}

(***************************************************************************)
(* Properties of the stored lists (checked under SpecSel)                  *)
(***************************************************************************)
\* the strings of the items of a stored array
StoredStrings(raw) == [i \in 1..Len(raw.items) |-> ToStr(raw.items[i])]
FirstFour(list) == SubSeq(list, 1, IF Len(list) < 4 THEN Len(list) ELSE 4)

\* C14: once a session is started and after each mutation, each key holds the
\* serialization of the current list; the startup of a session leaves, for each key
\* that held an array when the session was constructed, that array's entries as
\* strings (the first 4 of them for compare) in state and in storage.
C14_StorageRoundTrip ==
    /\ [](mountPhase = "ready" =>
            /\ storedFavorites = JSONStringify(favoriteIds)
            /\ storedCompare = JSONStringify(compareIds))
    /\ [][(ev'[1] = "restore" /\ bootStore.held) =>
            /\ bootStore.fav.kind = "array" =>
                  /\ favoriteIds' = StoredStrings(bootStore.fav)
                  /\ storedFavorites' = JSONStringify(StoredStrings(bootStore.fav))
            /\ bootStore.cmp.kind = "array" =>
                  /\ compareIds' = FirstFour(StoredStrings(bootStore.cmp))
                  /\ storedCompare' = JSONStringify(FirstFour(StoredStrings(bootStore.cmp)))]_vars

(***************************************************************************)
(* Properties of a fetch completion (checked under SpecFetch)              *)
(***************************************************************************)
ListedIds == {properties[i].id : i \in 1..Len(properties)}
PanelIds(panel) == [i \in 1..Len(panel) |-> panel[i].id]

\* C15: a fetch completion leaves the favorite ids, the compare ids, both stored
\* values and the polygon state (points, drawing, closed, dragging) as they were;
\* each panel shows, in list order, the listings of the ids that the current array
\* holds, and an id the array does not hold stays in the id list and in storage.
C15_FetchKeepsSelections ==
    /\ [][ev'[1] = "fetch" =>
            /\ UNCHANGED <<favoriteIds, compareIds, storedFavorites, storedCompare>>
            /\ UNCHANGED <<polygonPoints, isDrawingPolygon, isPolygonClosed, isDraggingVertex>>]_vars
    /\ [](/\ PanelIds(favoriteProperties) = SelectSeq(favoriteIds, LAMBDA id : id \in ListedIds)
          /\ PanelIds(compareProperties) = SelectSeq(compareIds, LAMBDA id : id \in ListedIds)
          /\ \A i \in 1..Len(favoriteProperties) :
                favoriteProperties[i] \in SeqSet(properties)
          /\ storedFavorites = JSONStringify(favoriteIds)
          /\ storedCompare = JSONStringify(compareIds))

\* a fetch completed during a vertex drag, with favorite "d" and compare "d", "c"
\* resolving to no listing of the new array
C15_Witness ==
    /\ ev[1] = "fetch"
    /\ isDraggingVertex
    /\ properties = <<ListingA, ListingB>>
    /\ favoriteIds = <<"a", "d">>
    /\ PanelIds(favoriteProperties) = <<"a">>
    /\ PanelIds(compareProperties) = <<"b">>

(***************************************************************************)
(* Properties of the selected ranges (checked under SpecFilter)            *)
(***************************************************************************)
\* C16 as claimed: a fetch completion that follows an edit leaves the selected
\* price, size, year and timeline ranges and the visible categories as they were.
C16_AsClaimed ==
    [][(ev'[1] = "fetch" /\ nEdits > 0) =>
         UNCHANGED <<priceRange, sizeRange, yearRange, dateRange, visibleCategories>>]_vars

\* C16 (amended): a fetch completion never changes the visible categories; it
\* changes a selected range only by the reset of the bounds recompute: price, year
\* or timeline to the full range just derived, when the new array holds a positive
\* price, a positive year_built or a parseable date; size to [0, new maximum], when
\* the available maximum grew.  Every other selected range stays as the user left it.
C16_FetchResetsOnlyFromData ==
    [][ev'[1] = "fetch" =>
         /\ visibleCategories' = visibleCategories
         /\ priceRange' # priceRange =>
               /\ PositivePrices(properties') # {}
               /\ priceRange' = <<minPriceAvailable', maxPriceAvailable'>>
         /\ yearRange' # yearRange =>
               /\ PositiveYears(properties') # {}
               /\ yearRange' = <<minYearAvailable', maxYearAvailable'>>
         /\ dateRange' # dateRange =>
               /\ ListingDays(properties') # {}
               /\ dateRange' = <<minDateAvailable', maxDateAvailable'>>
         /\ sizeRange' # sizeRange =>
               /\ maxSizeAvailable' > maxSizeAvailable
               /\ sizeRange' = <<0, maxSizeAvailable'>>]_vars

\* a fetch completed after a category was hidden and the size range narrowed: both
\* are as the user left them, the price range is the one derived from the array
C16_Witness ==
    /\ ev[1] = "fetch"
    /\ nEdits > 0
    /\ properties # <<>>
    /\ visibleCategories # AllVisible
    /\ sizeRange # <<0, maxSizeAvailable>>
    /\ PositivePrices(properties) # {}
    /\ priceRange = <<minPriceAvailable, maxPriceAvailable>>

Within(selected, lo, hi) == lo <= selected[1] /\ selected[1] <= selected[2] /\ selected[2] <= hi

C18_NoPopupWhileDrawing ==
    /\ [][(ev'[1] \in {"pointclick", "clusterclick"} /\ isDrawingPolygon) =>
            (popups' = popups /\ eases' = eases)]_vars
    /\ [][popups' # popups => (ev'[1] = "pointclick" /\ ~isDrawingPolygon)]_vars

\* a listing point clicked while drawing, after an earlier click opened a popup
C18_Witness ==
    /\ ev[1] = "pointclick"
    /\ evFrom = "drawing"
    /\ isDrawingPolygon
    /\ nClicks = 2
    /\ popups = 1

(***************************************************************************)
(* Properties of the map cursor (checked under SpecCursor)                 *)
(***************************************************************************)
OverVertex == hover = "vertex" /\ polygonPoints # <<>>
CursorOfState ==
    IF isDraggingVertex THEN "grabbing"
    ELSE IF isDrawingPolygon THEN "crosshair"
    ELSE IF OverVertex THEN "grab"
    ELSE ""

\* C19: with the pointer over a polygon vertex or over no layer, the cursor is
\* 'grabbing' while a vertex is dragged, else 'crosshair' while drawing, else 'grab'
\* while the pointer is over a vertex, else the default cursor.
C19_CursorIsFunctionOfState ==
    (mapLoaded /\ hover \in {"none", "vertex"}) => cursor = CursorOfState

(***************************************************************************)
(* Properties of a vertex drag (checked under SpecPoly)                    *)
(***************************************************************************)
DragInProgress ==
    isDraggingVertexRef /\ draggedVertexIndexRef \in 1..Len(polygonPoints)

\* C20: a pointer-move during a vertex drag replaces the coordinate of the vertex
\* chosen at press-down, keeping the number of points and every other vertex; the
\* chosen vertex changes only at a press-down; a pointer-move with no drag in
\* progress leaves the point list unchanged.
C20_MoveOverwritesChosenVertex ==
    [][/\ ev'[1] = "mousemove" =>
            IF DragInProgress
            THEN /\ Len(polygonPoints') = Len(polygonPoints)
                 /\ polygonPoints'[draggedVertexIndexRef] \in ClickPoints
                 /\ \A i \in 1..Len(polygonPoints) :
                       i # draggedVertexIndexRef => polygonPoints'[i] = polygonPoints[i]
            ELSE polygonPoints' = polygonPoints
       /\ (isDraggingVertexRef /\ isDraggingVertexRef' /\ ev'[1] # "mousedown")
            => draggedVertexIndexRef' = draggedVertexIndexRef
       /\ (ev'[1] = "mousedown" /\ ~isDraggingVertexRef /\ isDraggingVertexRef')
            => draggedVertexIndexRef' \in 1..Len(polygonPoints)]_vars

\* a move handled during a drag of the second vertex of a polygon of three
\* distinct-from-it points
C20_Witness ==
    /\ ev[1] = "mousemove"
    /\ evFrom = "dragging"
    /\ DragInProgress
    /\ Len(polygonPoints) = 3
    /\ draggedVertexIndexRef = 2
    /\ polygonPoints[2] # polygonPoints[1]
    /\ polygonPoints[2] # polygonPoints[3]

(***************************************************************************)
(* Properties of the clicks that draw the polygon (checked under SpecClick) *)
(***************************************************************************)
ClickEvents == {"click", "pointclick", "clusterclick"}

\* the coordinate a click event of this name and argument is at
ClickedAt(name, arg) ==
    IF name = "pointclick"
    THEN {parseLocationCoordinates(properties[RenderedListing(arg)].location)}
    ELSE PathClicks

\* every click handled while drawing appends its coordinate; a click handled while
\* idle or closed leaves the list alone
ClickAppends ==
    [][ev'[1] \in ClickEvents =>
         IF isDrawingPolygon
         THEN \E lngLat \in ClickedAt(ev'[1], ev'[2]) :
                 polygonPoints' = Append(polygonPoints, lngLat)
         ELSE polygonPoints' = polygonPoints]_vars

\* C21 (as stated): while drawing the point list grows only by clicks on the map
\* surface that are not on a listing point or a cluster, each appending the clicked
\* coordinate; a click handled while idle or closed never changes the list.
C21_AsClaimed ==
    /\ ClickAppends
    /\ [][Len(polygonPoints') > Len(polygonPoints) =>
            (ev'[1] = "click" /\ isDrawingPolygon)]_vars

\* C21 (amended): while drawing, every click on the map, on the bare surface or on
\* a listing point or cluster, appends exactly the clicked coordinate at the end
\* with every earlier point unchanged (duplicates allowed), and the list grows by
\* nothing else; a click handled while idle or closed never changes the list.
C21_EveryClickAppendsWhileDrawing ==
    /\ ClickAppends
    /\ [][Len(polygonPoints') > Len(polygonPoints) =>
            (ev'[1] \in ClickEvents /\ isDrawingPolygon)]_vars

\* the same listing point clicked twice while drawing: its coordinate is in the
\* list twice
C21_Witness ==
    /\ ev[1] = "pointclick"
    /\ evFrom = "drawing"
    /\ Len(polygonPoints) = 2
    /\ polygonPoints[1] = polygonPoints[2]
    /\ polygonPoints[2] = parseLocationCoordinates(properties[RenderedListing(ev[2])].location)

(***************************************************************************)
(* Properties of the filter predicate on one listing (under SpecFacet)     *)
(***************************************************************************)
Ranges(ends) == {<<a, b>> \in ends \X ends : a <= b}
PassesWith(f) ==
    Passes(facetListing, parseLocationCoordinates(facetListing.location), f)

\* C22: a listing with price <= 0 gets the same inclusion result for every selected
\* price range, a listing with size 0 the same for every selected size range, a
\* listing with an absent or zero year_built the same for every selected year
\* range, all the other filter state being equal.
C22_UnknownFieldBypassesFacet ==
    ev[1] = "filter" =>
        /\ facetListing.price <= 0 =>
              \A r \in Ranges(PriceEnds) :
                  PassesWith([facetFilter EXCEPT !.priceRange = r]) = facetResult.passes
        /\ facetListing.size_m2 = 0 =>
              \A r \in Ranges(SizeEnds) :
                  PassesWith([facetFilter EXCEPT !.sizeRange = r]) = facetResult.passes
        /\ facetListing.year_built = 0 =>
              \A r \in Ranges(YearEnds) :
                  PassesWith([facetFilter EXCEPT !.yearRange = r]) = facetResult.passes

\* a listing with a negative price, no size and no year passes under ranges that
\* hold none of the three values
C22_Witness ==
    /\ ev[1] = "filter"
    /\ facetListing.price < 0
    /\ facetListing.size_m2 = 0
    /\ facetListing.year_built = 0
    /\ facetFilter.priceRange = <<300000, 500000>>
    /\ facetFilter.sizeRange = <<60, 100>>
    /\ facetFilter.yearRange = <<2000, 2010>>
    /\ facetResult.passes

\* C23: the bucket is unknown iff the size is 0, otherwise cheap iff
\* price / size < 3000, medium iff 3000 <= price / size < 5000, expensive iff
\* price / size >= 5000; a listing that every other facet lets through is rendered
\* iff its bucket is visible, and a listing whose bucket is hidden is never rendered.
C23_BucketThresholds ==
    ev[1] = "filter" =>
        LET price == facetListing.price
            size == facetListing.size_m2
            bucket == facetResult.bucket
        IN /\ bucket \in Categories
           /\ (bucket = "unknown") <=> (size = 0)
           /\ size > 0 =>
                /\ (bucket = "cheap") <=> (price < 3000 * size)
                /\ (bucket = "medium") <=> (3000 * size <= price /\ price < 5000 * size)
                /\ (bucket = "expensive") <=> (price >= 5000 * size)
           /\ ~facetFilter.cats[bucket] => ~facetResult.passes
           /\ PassesWith([facetFilter EXCEPT !.cats = AllVisible]) =>
                (facetResult.passes <=> facetFilter.cats[bucket])

\* a listing at exactly 3000 per square metre, rendered as medium while cheap is hidden
C23_Witness ==
    /\ ev[1] = "filter"
    /\ facetListing.price = 150000
    /\ facetListing.size_m2 = 50
    /\ facetResult.bucket = "medium"
    /\ ~facetFilter.cats["cheap"]
    /\ facetResult.passes

(***************************************************************************)
(* Properties of the timeline facet (checked under SpecFilter)             *)
(***************************************************************************)
\* the day-truncated parseable history dates of a listing
HistoryDays(property) ==
    {toDayStart(property.price_history[k]) :
        k \in {j \in 1..Len(property.price_history) : property.price_history[j] >= 0}}

\* some date of the listing, or the available maximum day for a listing with no
\* parseable history entry, lies in [selected start day, available maximum day]
InTimeline(property) ==
    LET startDay == toDayStart(dateRange[1])
        maxDay == toDayStart(maxDateAvailable)
        days == IF HistoryDays(property) = {} THEN {maxDay} ELSE HistoryDays(property)
    IN \E d \in days : startDay <= d /\ d <= maxDay

\* C24: the timeline facet includes a listing iff one of its day-truncated history
\* dates lies in [selected start day, available maximum day]; the upper end is the
\* available maximum, not the selected one; a listing with no parseable history
\* entry passes the facet in every reachable state.
C24_TimelineFacet ==
    \A i \in 1..Len(properties) :
        LET p == properties[i]
            located == parseLocationCoordinates(p.location) # NoCoordinates
            others == Passes(p, parseLocationCoordinates(p.location),
                             [CurrentFilter EXCEPT !.dateRange = <<0, 0>>])
        IN /\ PassesTimeline(p, dateRange, maxDateAvailable) <=> InTimeline(p)
           /\ \A selectedEnd \in DateEnds :
                 PassesTimeline(p, <<dateRange[1], selectedEnd>>, maxDateAvailable)
                    = PassesTimeline(p, dateRange, maxDateAvailable)
           /\ HistoryDays(p) = {} => PassesTimeline(p, dateRange, maxDateAvailable)
           /\ (mapLoaded /\ Includes(sourceData, p.id)) => InTimeline(p)
           /\ (mapLoaded /\ located /\ others) => (Includes(sourceData, p.id) <=> InTimeline(p))

\* the start day moved past the history of listing a: a is no longer rendered,
\* while d, whose only history entry does not parse, still is
C24_Witness ==
    /\ ev[1] = "edit"
    /\ \E i \in 1..Len(properties) : properties[i].id = "a"
    /\ toDayStart(dateRange[1]) > 7200
    /\ ~Includes(sourceData, "a")
    /\ Includes(sourceData, "d")

(***************************************************************************)
(* Properties of map panning (checked under SpecPoly)                      *)
(***************************************************************************)
\* panning is off exactly while a drag is in progress
PanningOffOnlyWhileDragging == dragPan <=> ~isDraggingVertex

\* C25: panning is disabled exactly when a vertex drag is in progress; a press-down
\* on a vertex of a closed polygon disables it; pointer-release, drag-end,
\* start-drawing and clear each leave it enabled.
C25_PanningOffExactlyWhileDragging ==
    /\ []PanningOffOnlyWhileDragging
    /\ [][(ev'[1] = "mousedown" /\ isPolygonClosed /\ ~isDrawingPolygon) => ~dragPan']_vars
    /\ [][ev'[1] \in {"mouseup", "dragend", "start", "clear"} => dragPan']_vars

(***************************************************************************)
(* Properties of a startup over a corrupt stored value (under SpecSel)     *)
(***************************************************************************)
\* the restore of the favorites key, taken on its own
FavoritesRestoredAlone ==
    /\ favoriteIds' = StoredStrings(bootStore.fav)
    /\ storedFavorites' = JSONStringify(StoredStrings(bootStore.fav))
\* the restore of the compare key, taken on its own
CompareRestoredAlone ==
    /\ compareIds' = FirstFour(StoredStrings(bootStore.cmp))
    /\ storedCompare' = JSONStringify(FirstFour(StoredStrings(bootStore.cmp)))

\* C26: a startup over an unparseable value under one key leaves that list empty,
\* and the list under the other key, when that key held an array, restored from
\* it, with storage holding that restored list and not an empty one.
C26_CorruptKeyIsolated ==
    [][(ev'[1] = "restore" /\ bootStore.held) =>
         /\ bootStore.fav.kind = "corrupt" =>
               /\ favoriteIds' = <<>>
               /\ bootStore.cmp.kind = "array" => CompareRestoredAlone
         /\ bootStore.cmp.kind = "corrupt" =>
               /\ compareIds' = <<>>
               /\ bootStore.fav.kind = "array" => FavoritesRestoredAlone]_vars

\* the half of it with the compare key corrupt
CompareCorruptIsolated ==
    [][(ev'[1] = "restore" /\ bootStore.held /\ bootStore.cmp.kind = "corrupt") =>
         /\ compareIds' = <<>>
         /\ bootStore.fav.kind = "array" => FavoritesRestoredAlone]_vars

(***************************************************************************)
(* Properties of the startup of the map (checked under SpecBoot)           *)
(***************************************************************************)
\* the source holds the filtered projection of fetched listings
SourceHoldsFetched ==
    /\ mapLoaded
    /\ properties # <<>>
    /\ sourceData = Features(properties, CurrentFilter)

\* C27: whichever of the fetch completion and the map load comes first, the source
\* eventually holds, and from then on keeps holding, the filtered projection of the
\* fetched listings, with no user action needed for it.
C27_SourceEventuallyHoldsFetched == <>[]SourceHoldsFetched

\* the fetch resolved first: the load event has just put its listings in the source
C27_Witness ==
    /\ ev[1] = "mapload"
    /\ nEdits = 0
    /\ properties # <<>>
    /\ sourceData # <<>>
    /\ SourceHoldsFetched

(***************************************************************************)
(* Properties of the compare panel (checked under SpecPanel)               *)
(***************************************************************************)
\* C28: while the compare panel shows fewer than MAX_COMPARE_ITEMS listings,
\* toggleCompare of a current listing that is not in the compare list adds it.
C28_StaleIdsDoNotBlock ==
    [][(/\ ev'[1] = "toggleCompare"
        /\ ev'[2] \in ListedIds
        /\ ~Includes(compareIds, ev'[2])
        /\ Len(compareProperties) < MAX_COMPARE_ITEMS) => Includes(compareIds', ev'[2])]_vars

(***************************************************************************)
(* Properties of the price bounds (checked under SpecPrice)                *)
(***************************************************************************)
SmallestPositivePrice == Least(PositivePrices(properties))
LargestPrice == Greatest(PositivePrices(properties))
CappedMaximum == Min(CeilTo(LargestPrice, 10000), PRICE_FILTER_CAP)

\* C29 (as stated): after a fetch of an array with a positive price the available
\* minimum is the smallest positive price rounded down to a multiple of 10,000, the
\* available maximum the largest price rounded up to one and capped at 1,000,000,
\* the minimum does not exceed the maximum, and the selected range is [min, max].
C29_AsClaimed ==
    (ev[1] = "fetch" /\ PositivePrices(properties) # {}) =>
        /\ minPriceAvailable = FloorTo(SmallestPositivePrice, 10000)
        /\ maxPriceAvailable = CappedMaximum
        /\ minPriceAvailable <= maxPriceAvailable
        /\ priceRange = <<minPriceAvailable, maxPriceAvailable>>

\* C29 (amended): as stated, except that the available minimum is the rounded-down
\* smallest positive price or the available maximum, whichever is smaller.
C29_PriceBoundsCapped ==
    (ev[1] = "fetch" /\ PositivePrices(properties) # {}) =>
        /\ minPriceAvailable = Min(FloorTo(SmallestPositivePrice, 10000), CappedMaximum)
        /\ maxPriceAvailable = CappedMaximum
        /\ minPriceAvailable <= maxPriceAvailable
        /\ priceRange = <<minPriceAvailable, maxPriceAvailable>>

\* a fetch of listings all priced above the cap, after a thumb was moved
C29_Witness ==
    /\ ev[1] = "fetch"
    /\ nEdits > 0
    /\ PositivePrices(properties) # {}
    /\ SmallestPositivePrice > PRICE_FILTER_CAP
    /\ priceRange = <<PRICE_FILTER_CAP, PRICE_FILTER_CAP>>

(***************************************************************************)
(* Properties of the default ranges (checked under SpecFilter)             *)
(***************************************************************************)
LocatedIds ==
    {properties[i].id :
        i \in {k \in 1..Len(properties) :
                  parseLocationCoordinates(properties[k].location) # NoCoordinates}}

\* C30: right after a fetch, with no slider moved and no category toggled since the
\* start, all categories visible and no closed polygon, every listing of the array
\* that resolves a coordinate pair is in the rendered set.
C30_DefaultsExcludeNothing ==
    (/\ ev[1] = "fetch"
     /\ nEdits = 0
     /\ visibleCategories = AllVisible
     /\ ~isPolygonClosed) => LocatedIds \subseteq SeqSet(sourceData)

\* the same for the arrays that hold no price above the cap
DefaultsExcludeNothingUnderCap ==
    (/\ ev[1] = "fetch"
     /\ nEdits = 0
     /\ visibleCategories = AllVisible
     /\ ~isPolygonClosed
     /\ \A i \in 1..Len(properties) : properties[i].price <= PRICE_FILTER_CAP)
        => LocatedIds \subseteq SeqSet(sourceData)
====
